---- MODULE Spec2Model ----
(***************************************************************************)
(* The multi-conversation chat store of the dashboard front end            *)
(* (src/unnamed/part_003, the commented version of src/Scripts/chat.js):   *)
(* the chats collection, the active-chat pointer, their localStorage       *)
(* copy, the message view, the sidebar and the in-flight chat requests.    *)
(*                                                                         *)
(* Representation.  A text is a sequence of one-character strings.  A JS   *)
(* value that is a string or null is a TLA+ string, null being JSNull.  A  *)
(* chat object is a record of the values its property reads yield, plus    *)
(* `ref`, its object identity (two objects may carry the same id).  An     *)
(* action is one event-loop task: a whole handler up to its first await,   *)
(* or the continuation of an async function after an await.                *)
(*                                                                         *)
(* The article feed of the dashboard (src/UK/scripts/main.js) is a second  *)
(* script on another page: Spec runs the chat page, SpecFeed the feed.     *)
(***************************************************************************)
EXTENDS Integers, Sequences, FiniteSets, TLC

\* ------------------------------------------------------------------ bounds
MaxChats == 3      \* chats the "new chat" control is used up to
MaxStored == 4     \* stored messages, over all chats, the send control is used up to
MaxReq   == 1      \* chat requests in flight at once
MaxClock == 1      \* Date.now() ranges over 0..MaxClock

\* ------------------------------------------------------- program constants
TitleLen == 30

Min(a, b) == IF a <= b THEN a ELSE b
Last(s) == s[Len(s)]

\* JS null, and the undefined a missing property reads as
JSNull == "<null>"
Undefined == << "<undefined>" >>

DefaultTitle == << "N","e","w"," ","C","h","a","t" >>
Greeting == << "H","e","l","l","o","!"," ","H","o","w"," ","c","a","n"," ",
               "I"," ","h","e","l","p"," ","y","o","u","?" >>
TypingText == << "T","y","p","i","n","g",".",".","." >>
ServerErrorText == << "S","e","r","v","e","r"," ","e","r","r","o","r","."," ",
                      "P","l","e","a","s","e"," ","t","r","y"," ",
                      "a","g","a","i","n","." >>

\* ------------------------------------------------------------ input domains
\* A text one character longer than a title may be.
LongText == [i \in 1..(TitleLen + 1) |-> IF i <= TitleLen THEN "a" ELSE "b"]
\* What the user may have typed into #chatInput when sendMessage runs.
Inputs == { << >>, << " ", " " >>, << " " >> \o DefaultTitle \o << " " >>, LongText }
\* data.reply of a response body: a string, or undefined when the key is missing.
Replies == { << "o", "k" >>, Undefined }

WhiteSpace == { " ", "\t", "\n" }

\* Fault variant of Trim: the input is tested as typed, without trim().
Trim_None(s) == s

\* String.prototype.trim
RECURSIVE TrimLeft(_)
TrimLeft(s) == IF s # << >> /\ Head(s) \in WhiteSpace THEN TrimLeft(Tail(s)) ELSE s
RECURSIVE TrimRight(_)
TrimRight(s) ==
  IF s # << >> /\ s[Len(s)] \in WhiteSpace THEN TrimRight(SubSeq(s, 1, Len(s) - 1)) ELSE s
Trim(s) == TrimRight(TrimLeft(s))

\* text.slice(0, n)
Slice0(s, n) == SubSeq(s, 1, Min(Len(s), n))

\* `chat_${Date.now()}`
ChatId(t) == "chat_" \o ToString(t)

\* JS truthiness of a string-or-null value
Truthy(v) == v # JSNull /\ v # ""

\* String(v), as localStorage.setItem applies it to a string-or-null value
ToStr(v) == IF v = JSNull THEN "null" ELSE v

\* -------------------------------------------------------------------- JSON
\* JSON.stringify of a message: a key whose value is undefined is left out.
StringifyMsg(m) ==
  IF m.text = Undefined THEN [sender |-> m.sender]
  ELSE [sender |-> m.sender, text |-> m.text]

\* JSON.stringify(chats): own properties only, so the identity `ref` is not there.
Stringify(cs) ==
  [i \in 1..Len(cs) |->
     [id |-> cs[i].id, title |-> cs[i].title,
      messages |-> [j \in 1..Len(cs[i].messages) |-> StringifyMsg(cs[i].messages[j])],
      pinned |-> cs[i].pinned]]

ParseMsg(o) ==
  [sender |-> o.sender, text |-> IF "text" \in DOMAIN o THEN o.text ELSE Undefined]

\* JSON.parse of a stored `chats` item: fresh objects, identities 1..n.
Parse(j) ==
  [i \in 1..Len(j) |->
     [ref |-> i, id |-> j[i].id, title |-> j[i].title,
      messages |-> [k \in 1..Len(j[i].messages) |-> ParseMsg(j[i].messages[k])],
      pinned |-> j[i].pinned]]

\* ------------------------------------------------------------------- state
VARIABLES
  chats,         \* the chats array, newest first
  activeChatId,  \* id of the active chat, or JSNull
  localStorage,  \* [chats |-> JSON of chats, activeChatId |-> string]
  messagesEl,    \* children of #messages, in document order
  sidebar,       \* children of #chatList, in document order
  requests,      \* slot -> the sendMessage call suspended in it
  now,           \* Date.now()
  lastOp         \* the task that ran last, and the path it took

vars == << chats, activeChatId, localStorage, messagesEl, sidebar, requests, now, lastOp >>

\* The article feed (main.js).
VARIABLES
  state,            \* the `state` object: articles, filteredArticles, visibleCount, currentFilter
  filterBar,        \* the category buttons of #category-filter, in document order
  grid,             \* the cards of #article-grid, in document order
  loadMoreDisplay,  \* style.display of #load-more-container
  viewer,           \* #article-viewer: whether it is shown, and what openArticle() wrote
  load,             \* where loadArticles() is, and the response it got
  feedOp            \* the feed task that ran last

feedVars == << state, filterBar, grid, loadMoreDisplay, viewer, load, feedOp >>

\* The chatbot widget of the feed page (chatbot.js).
VARIABLES
  widget   \* [els: children of the message container, sends: slot -> position
           \*  of the sendChatMessage call suspended in it]

\* The part of the state the synchronous functions read and write.
Page == [chats |-> chats, activeChatId |-> activeChatId, localStorage |-> localStorage,
         messagesEl |-> messagesEl, sidebar |-> sidebar]

\* chats.findIndex(c => c.id === id), 1-based; 0 for -1
FindIndex(cs, id) ==
  IF \E i \in 1..Len(cs) : cs[i].id = id
  THEN CHOOSE i \in 1..Len(cs) : cs[i].id = id /\ \A k \in 1..(i - 1) : cs[k].id # id
  ELSE 0

\* position of the object `ref` in cs; 0 when the object is no longer in the array
IndexOfRef(cs, ref) ==
  IF \E i \in 1..Len(cs) : cs[i].ref = ref
  THEN CHOOSE i \in 1..Len(cs) : cs[i].ref = ref
  ELSE 0

\* cs with element i removed: chats.splice(i, 1)
Splice1(cs, i) == [k \in 1..(Len(cs) - 1) |-> IF k < i THEN cs[k] ELSE cs[k + 1]]

\* the subsequence of s of the elements satisfying P, in order
RECURSIVE SelectPinned(_, _)
SelectPinned(cs, p) ==
  IF cs = << >> THEN << >>
  ELSE (IF Head(cs).pinned = p THEN << Head(cs) >> ELSE << >>) \o SelectPinned(Tail(cs), p)

\* [...chats].sort(pinned first): Array.prototype.sort is stable
SortedChats(cs) == SelectPinned(cs, TRUE) \o SelectPinned(cs, FALSE)

\* what textContent = v shows: null and undefined give the empty string
DomText(v) == IF v = Undefined THEN << >> ELSE v

\* Fault variant of saveState: the activeChatId item is not written.
saveState_NoActive(P) ==
  [P EXCEPT !.localStorage.chats = Stringify(P.chats)]

\* saveState()
saveState(P) ==
  [P EXCEPT !.localStorage =
     [chats |-> Stringify(P.chats), activeChatId |-> ToStr(P.activeChatId)]]

\* Fault variant of renderSidebar: the array itself is sorted, not a copy.
renderSidebar_InPlace(P) ==
  LET sorted == SortedChats(P.chats) IN
  [P EXCEPT !.chats = sorted,
            !.sidebar =
     [i \in 1..Len(sorted) |->
        [ref |-> sorted[i].ref, id |-> sorted[i].id, title |-> sorted[i].title,
         active |-> (sorted[i].id = P.activeChatId), pinned |-> sorted[i].pinned]]]

\* renderSidebar(): one <li> per chat, its handlers bound to the chat object
renderSidebar(P) ==
  LET sorted == SortedChats(P.chats) IN
  [P EXCEPT !.sidebar =
     [i \in 1..Len(sorted) |->
        [ref |-> sorted[i].ref, id |-> sorted[i].id, title |-> sorted[i].title,
         active |-> (sorted[i].id = P.activeChatId), pinned |-> sorted[i].pinned]]]

\* addMessage(text, sender)
addMessage(P, text, sender) ==
  [P EXCEPT !.messagesEl =
     Append(@, [cls |-> "message " \o sender, text |-> DomText(text), req |-> 0])]

\* loadChat(chatId)
loadChat(P, chatId) ==
  LET i == FindIndex(P.chats, chatId) IN
  IF i = 0 THEN [P EXCEPT !.messagesEl = << >>]
  ELSE [P EXCEPT !.messagesEl =
          [k \in 1..Len(P.chats[i].messages) |->
             [cls |-> "message " \o P.chats[i].messages[k].sender,
              text |-> DomText(P.chats[i].messages[k].text), req |-> 0]]]

\* Fault variant of createNewChat: the chat starts without the greeting.
createNewChat_NoGreeting(P, t, ref) ==
  LET chat == [ref |-> ref, id |-> ChatId(t), title |-> DefaultTitle,
               messages |-> << >>, pinned |-> FALSE]
      P1 == [P EXCEPT !.chats = << chat >> \o @, !.activeChatId = chat.id]
  IN loadChat(renderSidebar(saveState(P1)), chat.id)

\* createNewChat(), run at time t, the new object getting identity ref
createNewChat(P, t, ref) ==
  LET chat == [ref |-> ref, id |-> ChatId(t), title |-> DefaultTitle,
               messages |-> << [sender |-> "bot", text |-> Greeting] >>,
               pinned |-> FALSE]
      P1 == [P EXCEPT !.chats = << chat >> \o @, !.activeChatId = chat.id]
  IN loadChat(renderSidebar(saveState(P1)), chat.id)

\* Fault variant of deleteChat: the active id is not reassigned.
deleteChat_KeepActive(P, chatId, t, ref) ==
  LET index == FindIndex(P.chats, chatId) IN
  IF index = 0 THEN P
  ELSE renderSidebar(saveState([P EXCEPT !.chats = Splice1(@, index)]))

\* Fault variant of deleteChat: no chat is created when none remains.
deleteChat_NoCreate(P, chatId, t, ref) ==
  LET index == FindIndex(P.chats, chatId) IN
  IF index = 0 THEN P
  ELSE
    LET P1 == [P EXCEPT !.chats = Splice1(@, index)]
        P2 == IF P1.activeChatId = chatId
              THEN LET a == IF Len(P1.chats) # 0 THEN P1.chats[1].id ELSE JSNull
                   IN loadChat([P1 EXCEPT !.activeChatId = a], a)
              ELSE P1
    IN renderSidebar(saveState(P2))

\* Fault variant of deleteChat: the last remaining chat becomes active.
deleteChat_LastRemaining(P, chatId, t, ref) ==
  LET index == FindIndex(P.chats, chatId) IN
  IF index = 0 THEN P
  ELSE
    LET P1 == [P EXCEPT !.chats = Splice1(@, index)]
        P2 == IF P1.activeChatId = chatId
              THEN LET a == IF Len(P1.chats) # 0 THEN P1.chats[Len(P1.chats)].id ELSE JSNull
                       P1a == [P1 EXCEPT !.activeChatId = a]
                   IN IF Truthy(a) THEN loadChat(P1a, a) ELSE createNewChat(P1a, t, ref)
              ELSE P1
    IN renderSidebar(saveState(P2))

\* Fault variant of deleteChat: the first remaining chat is selected after
\* every deletion.
deleteChat_SelectFirst(P, chatId, t, ref) ==
  LET index == FindIndex(P.chats, chatId) IN
  IF index = 0 THEN P
  ELSE
    LET P1 == [P EXCEPT !.chats = Splice1(@, index)]
        a == IF Len(P1.chats) # 0 THEN P1.chats[1].id ELSE JSNull
        P1a == [P1 EXCEPT !.activeChatId = a]
        P2 == IF Truthy(a) THEN loadChat(P1a, a) ELSE createNewChat(P1a, t, ref)
    IN renderSidebar(saveState(P2))

\* Fault variant of deleteChat: without the test of index, splice(-1, 1)
\* removes the last chat.
deleteChat_NoGuard(P, chatId, t, ref) ==
  LET found == FindIndex(P.chats, chatId)
      index == IF found = 0 THEN Len(P.chats) ELSE found
      P1 == [P EXCEPT !.chats = Splice1(@, index)]
      P2 == IF P1.activeChatId = chatId
            THEN LET a == IF Len(P1.chats) # 0 THEN P1.chats[1].id ELSE JSNull
                     P1a == [P1 EXCEPT !.activeChatId = a]
                 IN IF Truthy(a) THEN loadChat(P1a, a) ELSE createNewChat(P1a, t, ref)
            ELSE P1
  IN renderSidebar(saveState(P2))

\* deleteChat(chatId), run at time t
deleteChat(P, chatId, t, ref) ==
  LET index == FindIndex(P.chats, chatId) IN
  IF index = 0 THEN P
  ELSE
    LET P1 == [P EXCEPT !.chats = Splice1(@, index)]
        P2 == IF P1.activeChatId = chatId
              THEN LET a == IF Len(P1.chats) # 0 THEN P1.chats[1].id ELSE JSNull
                       P1a == [P1 EXCEPT !.activeChatId = a]
                   IN IF Truthy(a) THEN loadChat(P1a, a) ELSE createNewChat(P1a, t, ref)
              ELSE P1
    IN renderSidebar(saveState(P2))

\* The script's top level: state load and the initialization check.
Startup(storedChats, storedActive, t) ==
  LET cs == Parse(storedChats)
      a  == IF Truthy(storedActive) THEN storedActive ELSE JSNull
      P0 == [chats |-> cs, activeChatId |-> a,
             localStorage |-> [chats |-> storedChats, activeChatId |-> storedActive],
             messagesEl |-> << >>, sidebar |-> << >>]
  IN IF ~Truthy(a) \/ FindIndex(cs, a) = 0
     THEN createNewChat(P0, t, Len(cs) + 1)
     ELSE loadChat(renderSidebar(P0), a)

\* ------------------------------------------------------------ async part
IdleRequest == [pc |-> "idle", chat |-> 0]

\* identities held by the chats array and by the suspended sendMessage calls
UsedRefs(cs, reqs) ==
  {cs[i].ref : i \in 1..Len(cs)} \cup {reqs[r].chat : r \in DOMAIN reqs}

\* the identity the next allocated chat object gets
FreshRef(cs, reqs) ==
  CHOOSE n \in 1..(Len(cs) + Cardinality(DOMAIN reqs) + 1) :
    /\ n \notin UsedRefs(cs, reqs)
    /\ \A k \in 1..(n - 1) : k \in UsedRefs(cs, reqs)

\* the suspended sendMessage calls
InFlight(reqs) == {r \in DOMAIN reqs : reqs[r].pc # "idle"}

\* messages held by the chats array
RECURSIVE Stored(_)
Stored(cs) == IF cs = << >> THEN 0 ELSE Len(Head(cs).messages) + Stored(Tail(cs))

\* Fault variant of sendMessageSync: the typing indicator is pushed to the
\* chat's messages like a message, before the state is saved.
sendMessageSync_StoreTyping(P, text, i, slot) ==
  LET P1 == [P EXCEPT !.chats[i].messages =
               Append(@, [sender |-> "user", text |-> text]) \o
                 << [sender |-> "bot", text |-> TypingText] >>]
      P2 == addMessage(P1, text, "user")
      P3 == IF P2.chats[i].title = DefaultTitle
            THEN [P2 EXCEPT !.chats[i].title = Slice0(text, TitleLen)]
            ELSE P2
      P4 == saveState(renderSidebar(P3))
  IN [P4 EXCEPT !.messagesEl =
        Append(@, [cls |-> "message bot", text |-> TypingText, req |-> slot])]

\* sendMessage() from its start to the fetch call, for the trimmed text and the
\* chat at index i; the typing element is tagged with the call's slot
sendMessageSync(P, text, i, slot) ==
  LET P1 == [P EXCEPT !.chats[i].messages = Append(@, [sender |-> "user", text |-> text])]
      P2 == addMessage(P1, text, "user")
      P3 == IF P2.chats[i].title = DefaultTitle
            THEN [P2 EXCEPT !.chats[i].title = Slice0(text, TitleLen)]
            ELSE P2
      P4 == saveState(renderSidebar(P3))
  IN [P4 EXCEPT !.messagesEl =
        Append(@, [cls |-> "message bot", text |-> TypingText, req |-> slot])]

\* Fault variant of RemoveTyping: the typing element stays.
RemoveTyping_Keep(els, slot) == els

\* typing.remove(): detaches the element if it is still in the document
RemoveTyping(els, slot) ==
  LET keep == {k \in 1..Len(els) : els[k].req # slot}
      pos(n) == CHOOSE k \in keep : Cardinality({m \in keep : m <= k}) = n
  IN [n \in 1..Cardinality(keep) |-> els[pos(n)]]

\* Fault variant of sendMessageReply: the reply is stored but not saved.
sendMessageReply_NoSave(P, ref, slot, reply) ==
  LET i  == IndexOfRef(P.chats, ref)
      P1 == [P EXCEPT !.messagesEl = RemoveTyping(@, slot)]
      P2 == IF i = 0 THEN P1
            ELSE [P1 EXCEPT !.chats[i].messages = Append(@, [sender |-> "bot", text |-> reply])]
  IN addMessage(P2, reply, "bot")

\* Fault variant of sendMessageReply: the chat is looked up again, by
\* activeChatId, when the response arrives.
sendMessageReply_ToActive(P, ref, slot, reply) ==
  LET i  == FindIndex(P.chats, P.activeChatId)
      P1 == [P EXCEPT !.messagesEl = RemoveTyping(@, slot)]
      P2 == IF i = 0 THEN P1
            ELSE [P1 EXCEPT !.chats[i].messages = Append(@, [sender |-> "bot", text |-> reply])]
  IN saveState(addMessage(P2, reply, "bot"))

\* Fault variant of sendMessageReply: a chat that left the array is put back.
sendMessageReply_Reinsert(P, ref, slot, reply) ==
  LET i  == IndexOfRef(P.chats, ref)
      P1 == [P EXCEPT !.messagesEl = RemoveTyping(@, slot)]
      P2 == IF i = 0
            THEN [P1 EXCEPT !.chats =
                    << [ref |-> ref, id |-> ChatId(0), title |-> DefaultTitle,
                        messages |-> << [sender |-> "bot", text |-> reply] >>,
                        pinned |-> FALSE] >> \o @]
            ELSE [P1 EXCEPT !.chats[i].messages = Append(@, [sender |-> "bot", text |-> reply])]
  IN saveState(addMessage(P2, reply, "bot"))

\* sendMessage() after `await res.json()` gave data with data.reply = reply
sendMessageReply(P, ref, slot, reply) ==
  LET i  == IndexOfRef(P.chats, ref)
      P1 == [P EXCEPT !.messagesEl = RemoveTyping(@, slot)]
      P2 == IF i = 0 THEN P1  \* the object left the array: the push is unobservable
            ELSE [P1 EXCEPT !.chats[i].messages = Append(@, [sender |-> "bot", text |-> reply])]
  IN saveState(addMessage(P2, reply, "bot"))

\* Fault variant of sendMessageCatch: the typing element is left in place.
sendMessageCatch_NoRemove(P, slot) == addMessage(P, ServerErrorText, "bot")

\* sendMessage()'s catch block
sendMessageCatch(P, slot) ==
  addMessage([P EXCEPT !.messagesEl = RemoveTyping(@, slot)], ServerErrorText, "bot")

SetPage(P) ==
  /\ chats' = P.chats
  /\ activeChatId' = P.activeChatId
  /\ localStorage' = P.localStorage
  /\ messagesEl' = P.messagesEl
  /\ sidebar' = P.sidebar

pageVars == << chats, activeChatId, localStorage, messagesEl, sidebar >>

SetPageNow(P) ==
  /\ chats = P.chats
  /\ activeChatId = P.activeChatId
  /\ localStorage = P.localStorage
  /\ messagesEl = P.messagesEl
  /\ sidebar = P.sidebar

\* ----------------------------------------------------------------- actions
\* First page load, with nothing stored: JSON.parse(null) || [] and a null id.
ChatInit ==
  /\ now = 0
  /\ LET P == Startup(<< >>, JSNull, 0) IN
       /\ chats = P.chats
       /\ activeChatId = P.activeChatId
       /\ localStorage = P.localStorage
       /\ messagesEl = P.messagesEl
       /\ sidebar = P.sidebar
  /\ requests = [r \in 1..MaxReq |-> IdleRequest]
  /\ lastOp = [op |-> "startup", tag |-> "created"]

\* The times a task that starts now or later may read from Date.now().
Times == now..Min(now + 1, MaxClock)

\* The page is reloaded at time t: the suspended calls die with the old page.
Reload(t) ==
  /\ SetPage(Startup(localStorage.chats, localStorage.activeChatId, t))
  /\ requests' = [r \in DOMAIN requests |-> IdleRequest]
  /\ lastOp' = [op |-> "startup",
                tag |-> IF ~Truthy(localStorage.activeChatId)
                           \/ FindIndex(Parse(localStorage.chats), localStorage.activeChatId) = 0
                        THEN "created" ELSE "loaded"]
  /\ now' = t

\* The "new chat" control calls createNewChat() at time t.
CreateNewChat(t) ==
  /\ Len(chats) < MaxChats
  /\ SetPage(createNewChat(Page, t, FreshRef(chats, requests)))
  /\ lastOp' = [op |-> "createNewChat", tag |-> ""]
  /\ now' = t
  /\ UNCHANGED requests

\* Fault variant of selectChat: the selection is not saved.
selectChat_NoSave(P, ref) ==
  LET id == P.chats[IndexOfRef(P.chats, ref)].id
      P1 == [P EXCEPT !.activeChatId = id]
  IN loadChat(renderSidebar(P1), id)

\* title.onclick of sidebar entry k
selectChat(P, ref) ==
  LET id == P.chats[IndexOfRef(P.chats, ref)].id
      P1 == [P EXCEPT !.activeChatId = id]
  IN loadChat(renderSidebar(saveState(P1)), id)

SelectChat(k) ==
  /\ SetPage(selectChat(Page, sidebar[k].ref))
  /\ lastOp' = [op |-> "select", tag |-> ""]
  /\ UNCHANGED << requests, now >>

\* Fault variant of pinToggle: pinning also selects the chat.
pinToggle_Select(P, ref) ==
  LET i == IndexOfRef(P.chats, ref) IN
  renderSidebar(saveState([P EXCEPT !.chats[i].pinned = ~@,
                                    !.activeChatId = P.chats[i].id]))

\* pinBtn.onclick of sidebar entry k
pinToggle(P, ref) ==
  LET i == IndexOfRef(P.chats, ref) IN
  renderSidebar(saveState([P EXCEPT !.chats[i].pinned = ~@]))

TogglePin(k) ==
  /\ SetPage(pinToggle(Page, sidebar[k].ref))
  /\ lastOp' = [op |-> "pin", tag |-> ""]
  /\ UNCHANGED << requests, now >>

\* delBtn.onclick of sidebar entry k, at time t: deleteChat(chat.id)
DeleteChat(k, t) ==
  LET id    == chats[IndexOfRef(chats, sidebar[k].ref)].id
      index == FindIndex(chats, id)
      rest  == Splice1(chats, index)
  IN /\ SetPage(deleteChat(Page, id, t, FreshRef(chats, requests)))
     /\ lastOp' = [op |-> "deleteChat",
                   tag |-> IF activeChatId # id THEN "inactive"
                           ELSE IF Len(rest) # 0 THEN "activeOther" ELSE "sole"]
     /\ now' = t
     /\ UNCHANGED requests

\* the stored messages the model lets the page hold: MaxStored, and one more
\* for each request slot beyond MaxReq
StoreLimit == MaxStored + (Cardinality(DOMAIN requests) - MaxReq)

\* sendMessage() with `input` in #chatInput, up to its first await
SendMessage(input) ==
  LET text == Trim(input)
      i    == FindIndex(chats, activeChatId)
  IN IF text = << >> \/ i = 0
     THEN /\ lastOp' = [op |-> "sendMessage", tag |-> IF text = << >> THEN "blank" ELSE "nochat"]
          /\ UNCHANGED << pageVars, requests, now >>
     ELSE /\ Stored(chats) + Cardinality(InFlight(requests)) + 2 <= StoreLimit
          /\ \E slot \in DOMAIN requests :
               /\ requests[slot].pc = "idle"
               /\ \A r \in 1..(slot - 1) : requests[r].pc # "idle"
               /\ SetPage(sendMessageSync(Page, text, i, slot))
               /\ requests' = [requests EXCEPT ![slot] = [pc |-> "await", chat |-> chats[i].ref]]
          /\ lastOp' = [op |-> "sendMessage", tag |-> "sent"]
          /\ UNCHANGED now

\* fetch() rejects (network failure), or res.json() rejects (the body is not
\* JSON), or data is null and reading data.reply throws: the catch block runs
RequestReject(r) ==
  /\ requests[r].pc = "await"
  /\ SetPage(sendMessageCatch(Page, r))
  /\ requests' = [requests EXCEPT ![r] = IdleRequest]
  /\ lastOp' = [op |-> "response", tag |-> "failed"]
  /\ UNCHANGED now

\* fetch() resolves with a response whose status is a success (ok) or not
\* (res.ok is not read) and res.json() resolves with an object whose reply
\* property reads `reply`; nothing is read or written between the two awaits
RequestResolve(r, ok, reply) ==
  /\ requests[r].pc = "await"
  /\ SetPage(sendMessageReply(Page, requests[r].chat, r, reply))
  /\ requests' = [requests EXCEPT ![r] = IdleRequest]
  /\ lastOp' = [op |-> "response", tag |-> IF ok THEN "reply" ELSE "replyNotOk"]
  /\ UNCHANGED now

ChatStep ==
  \/ \E t \in Times : Reload(t)
  \/ \E t \in Times : CreateNewChat(t)
  \/ \E k \in 1..Len(sidebar) : SelectChat(k)
  \/ \E k \in 1..Len(sidebar) : TogglePin(k)
  \/ \E k \in 1..Len(sidebar), t \in Times : DeleteChat(k, t)
  \/ \E input \in Inputs : SendMessage(input)
  \/ \E r \in DOMAIN requests : RequestReject(r)
  \/ \E r \in DOMAIN requests, ok \in BOOLEAN, reply \in Replies : RequestResolve(r, ok, reply)

\* ------------------------------------------------------------ feed: texts
\* Feed texts are sequences of one-character strings.
LowerLetters == << "a", "b", "c", "d", "e", "f", "g", "h", "i", "j", "k", "l", "m", "n", "o", "p", "q", "r", "s", "t", "u", "v", "w", "x", "y", "z" >>
UpperLetters == << "A", "B", "C", "D", "E", "F", "G", "H", "I", "J", "K", "L", "M", "N", "O", "P", "Q", "R", "S", "T", "U", "V", "W", "X", "Y", "Z" >>
Digits == << "0", "1", "2", "3", "4", "5", "6", "7", "8", "9" >>

Range(s) == {s[i] : i \in 1..Len(s)}

\* String.prototype.toLowerCase / toUpperCase, one character
ToLower(c) ==
  IF c \in Range(UpperLetters)
  THEN LowerLetters[CHOOSE i \in 1..Len(UpperLetters) : UpperLetters[i] = c]
  ELSE c
ToUpper(c) ==
  IF c \in Range(LowerLetters)
  THEN UpperLetters[CHOOSE i \in 1..Len(LowerLetters) : LowerLetters[i] = c]
  ELSE c
LowerCase(s) == [i \in 1..Len(s) |-> ToLower(s[i])]

\* the regular expression class \w
IsWordChar(c) == c \in Range(LowerLetters) \cup Range(UpperLetters) \cup Range(Digits) \cup {"_"}

\* String.prototype.includes
Includes(s, sub) ==
  \E i \in 0..(Len(s) - Len(sub)) : SubSeq(s, i + 1, i + Len(sub)) = sub

\* String.prototype.split on a one-character separator
RECURSIVE Split(_, _)
Split(s, sep) ==
  IF \E i \in 1..Len(s) : s[i] = sep
  THEN LET i == CHOOSE j \in 1..Len(s) : s[j] = sep /\ \A h \in 1..(j - 1) : s[h] # sep
       IN << SubSeq(s, 1, i - 1) >> \o Split(SubSeq(s, i + 1, Len(s)), sep)
  ELSE << s >>

\* decimal form of a count below 100
NumText(n) ==
  IF n < 10 THEN << Digits[n + 1] >>
  ELSE << Digits[(n \div 10) + 1], Digits[(n % 10) + 1] >>

\* a field of a raw record is absent, or holds a falsy string
Has(item, f) == f \in DOMAIN item /\ item[f] # << >>

UnknownTitle == << "U", "n", "k", "n", "o", "w", "n" >>
Ellipsis == << ".", ".", "." >>
AllText == << "A", "l", "l" >>
AllFilter == << "a", "l", "l" >>
SourceText == << "s", "o", "u", "r", "c", "e" >>
HttpsPrefix == << "h", "t", "t", "p", "s", ":", "/", "/" >>

CyberSecurity == << "C", "y", "b", "e", "r", " ", "S", "e", "c", "u", "r", "i", "t", "y" >>
PhysicalSecurity == << "P", "h", "y", "s", "i", "c", "a", "l", " ", "S", "e", "c", "u", "r", "i", "t", "y" >>
TechnicalSecurity == << "T", "e", "c", "h", "n", "i", "c", "a", "l", " ", "S", "e", "c", "u", "r", "i", "t", "y" >>
HumanSecurity == << "H", "u", "m", "a", "n", " ", "S", "e", "c", "u", "r", "i", "t", "y" >>
IoTSecurity == << "I", "o", "T", " ", "S", "e", "c", "u", "r", "i", "t", "y" >>
ThreatIntelligence == << "T", "h", "r", "e", "a", "t", " ", "I", "n", "t", "e", "l", "l", "i", "g", "e", "n", "c", "e" >>
Careers == << "C", "a", "r", "e", "e", "r", "s" >>
SocialEngineering == << "S", "o", "c", "i", "a", "l", " ", "E", "n", "g", "i", "n", "e", "e", "r", "i", "n", "g" >>
ThreatActors == << "T", "h", "r", "e", "a", "t", " ", "A", "c", "t", "o", "r", "s" >>
AttackVectors == << "A", "t", "t", "a", "c", "k", " ", "V", "e", "c", "t", "o", "r", "s" >>
Vulnerabilities == << "V", "u", "l", "n", "e", "r", "a", "b", "i", "l", "i", "t", "i", "e", "s" >>
Cryptography == << "C", "r", "y", "p", "t", "o", "g", "r", "a", "p", "h", "y" >>
Governance == << "G", "o", "v", "e", "r", "n", "a", "n", "c", "e" >>
Malware == << "M", "a", "l", "w", "a", "r", "e" >>

\* ----------------------------------------------------- feed: normalisation
\* getCategoryFromUrl(): the tests, in the order of the code
CategoryRules ==
  << [keys |-> {<< "p", "h", "y", "s", "i", "c", "a", "l" >>}, category |-> PhysicalSecurity],
     [keys |-> {<< "t", "e", "c", "h", "n", "i", "c", "a", "l" >>}, category |-> TechnicalSecurity],
     [keys |-> {<< "h", "u", "m", "a", "n" >>}, category |-> HumanSecurity],
     [keys |-> {<< "i", "o", "t" >>, << "i", "n", "t", "e", "r", "n", "e", "t", "-", "o", "f", "-", "t", "h", "i", "n", "g", "s" >>}, category |-> IoTSecurity],
     [keys |-> {<< "t", "h", "r", "e", "a", "t" >>}, category |-> ThreatIntelligence],
     [keys |-> {<< "c", "a", "r", "e", "e", "r" >>}, category |-> Careers],
     [keys |-> {<< "s", "o", "c", "i", "a", "l", "-", "e", "n", "g", "i", "n", "e", "e", "r", "i", "n", "g" >>, << "s", "c", "a", "m" >>}, category |-> SocialEngineering],
     [keys |-> {<< "h", "a", "c", "k", "e", "r" >>, << "n", "a", "t", "i", "o", "n", "-", "s", "t", "a", "t", "e" >>}, category |-> ThreatActors],
     [keys |-> {<< "a", "t", "t", "a", "c", "k" >>, << "s", "u", "p", "p", "l", "y", "-", "c", "h", "a", "i", "n" >>}, category |-> AttackVectors],
     [keys |-> {<< "v", "u", "l", "n", "e", "r", "a", "b", "i", "l", "i", "t" >>}, category |-> Vulnerabilities],
     [keys |-> {<< "c", "r", "y", "p", "t", "o", "g", "r", "a", "p", "h" >>, << "q", "u", "a", "n", "t", "u", "m" >>}, category |-> Cryptography],
     [keys |-> {<< "g", "o", "v", "e", "r", "n", "a", "n", "c", "e" >>, << "p", "r", "o", "t", "e", "c", "t", "i", "o", "n" >>}, category |-> Governance] >>

\* Fault variant of getCategoryFromUrl: the url is searched as written,
\* without toLowerCase().
getCategoryFromUrl_CaseSensitive(url) ==
  LET Hit(k) == \E key \in CategoryRules[k].keys : Includes(url, key)
  IN IF \E k \in 1..Len(CategoryRules) : Hit(k)
     THEN CategoryRules[CHOOSE k \in 1..Len(CategoryRules) :
                          Hit(k) /\ \A h \in 1..(k - 1) : ~Hit(h)].category
     ELSE CyberSecurity

getCategoryFromUrl(url) ==
  LET u == LowerCase(url)
      Hit(k) == \E key \in CategoryRules[k].keys : Includes(u, key)
  IN IF \E k \in 1..Len(CategoryRules) : Hit(k)
     THEN CategoryRules[CHOOSE k \in 1..Len(CategoryRules) :
                          Hit(k) /\ \A h \in 1..(k - 1) : ~Hit(h)].category
     ELSE CyberSecurity

\* getCategoryIcon(): each emoji is one character, written by its name
getCategoryIcon(category) ==
  CASE category = PhysicalSecurity -> << "office" >>
    [] category = TechnicalSecurity -> << "laptop" >>
    [] category = HumanSecurity -> << "people" >>
    [] category = IoTSecurity -> << "phone" >>
    [] category = ThreatIntelligence -> << "warning" >>
    [] category = Careers -> << "briefcase" >>
    [] category = SocialEngineering -> << "masks" >>
    [] category = ThreatActors -> << "detective" >>
    [] category = AttackVectors -> << "target" >>
    [] category = Vulnerabilities -> << "shield" >>
    [] category = Cryptography -> << "closedlock" >>
    [] category = Governance -> << "clipboard" >>
    [] category = Malware -> << "microbe" >>
    [] OTHER -> << "lock" >>

\* Fault variant of DeriveTitle: only the first character is capitalised.
DeriveTitle_FirstOnly(url) ==
  LET parts == SelectSeq(Split(url, "/"), LAMBDA p : p # << >>)
      last  == IF parts = << >> THEN CyberSecurity ELSE Last(parts)
      spaced == [i \in 1..Len(last) |-> IF last[i] = "-" THEN " " ELSE last[i]]
  IN [i \in 1..Len(spaced) |-> IF i = 1 THEN ToUpper(spaced[i]) ELSE spaced[i]]

\* processArticles(): the title made from the url
DeriveTitle(url) ==
  LET parts == SelectSeq(Split(url, "/"), LAMBDA p : p # << >>)
      last  == IF parts = << >> THEN CyberSecurity ELSE Last(parts)
      spaced == [i \in 1..Len(last) |-> IF last[i] = "-" THEN " " ELSE last[i]]
  IN [i \in 1..Len(spaced) |->
        IF IsWordChar(spaced[i]) /\ (i = 1 \/ ~IsWordChar(spaced[i - 1]))
        THEN ToUpper(spaced[i]) ELSE spaced[i]]

ExcerptLen == 200

\* item.full_content || item.content || ''
ContentOf(item) ==
  IF Has(item, "full_content") THEN item.full_content
  ELSE IF Has(item, "content") THEN item.content
  ELSE << >>

\* processArticles(): the Article pushed for an accepted record
MakeArticle(item) ==
  LET content == ContentOf(item)
      title == IF ~Has(item, "title") \/ item.title = UnknownTitle \/ item.title = item.url
               THEN DeriveTitle(item.url) ELSE item.title
      category == IF Has(item, "category") THEN item.category
                  ELSE getCategoryFromUrl(item.url)
      excerpt == IF Has(item, "excerpt") THEN item.excerpt
                 ELSE Slice0(content, ExcerptLen) \o Ellipsis
  IN [title |-> title, excerpt |-> excerpt, url |-> item.url,
      icon |-> getCategoryIcon(category), category |-> category,
      full_content |-> content]

\* Fault variant of processLoop: a record is only dropped for a missing url or
\* missing content, never for a url seen before.
RECURSIVE processLoop_NoDedup(_, _, _, _)
processLoop_NoDedup(rawArticles, k, seenUrls, processed) ==
  IF k > Len(rawArticles) THEN processed
  ELSE LET item == rawArticles[k] IN
       IF ~Has(item, "url") \/ ContentOf(item) = << >>
       THEN processLoop_NoDedup(rawArticles, k + 1, seenUrls, processed)
       ELSE processLoop_NoDedup(rawArticles, k + 1, seenUrls \cup {item.url},
                        Append(processed, MakeArticle(item)))

\* processArticles(): the forEach loop from record k on
RECURSIVE processLoop(_, _, _, _)
processLoop(rawArticles, k, seenUrls, processed) ==
  IF k > Len(rawArticles) THEN processed
  ELSE LET item == rawArticles[k] IN
       IF ~Has(item, "url") \/ item.url \in seenUrls \/ ContentOf(item) = << >>
       THEN processLoop(rawArticles, k + 1, seenUrls, processed)
       ELSE processLoop(rawArticles, k + 1, seenUrls \cup {item.url},
                        Append(processed, MakeArticle(item)))

processArticles(rawArticles) == processLoop(rawArticles, 1, {}, << >>)

\* ------------------------------------------------------------ feed: inputs
UrlABC == << "h", "t", "t", "p", "s", ":", "/", "/", "x", "/", "a", "-", "b", "-", "c" >>
UrlPhysicalIoT == << "h", "t", "t", "p", "s", ":", "/", "/", "x", "/", "P", "h", "y", "s", "i", "c", "a", "l", "-", "I", "o", "T" >>
UrlIoTHtml == << "h", "t", "t", "p", "s", ":", "/", "/", "x", "/", "I", "o", "T", ".", "h", "t", "m", "l" >>
UrlHumanThreat == << "h", "t", "t", "p", "s", ":", "/", "/", "x", "/", "h", "u", "m", "a", "n", "-", "t", "h", "r", "e", "a", "t" >>
UrlNoSegment == << "/", "/" >>
UrlHostOnly == << "h", "t", "t", "p", "s", ":", "/", "/", "c", "y", "b", "e", "r", ".", "u", "k" >>

\* raw records as the backend may send them; an absent key is not in the record
Records ==
  { [url |-> UrlABC, title |-> UnknownTitle, content |-> << "c", "1" >>],
    [url |-> UrlABC, title |-> << "T", "2" >>, category |-> Malware, content |-> << "c", "2" >>],
    [url |-> UrlABC, title |-> << "T", "3" >>, content |-> << >>],
    [url |-> UrlPhysicalIoT, title |-> UrlPhysicalIoT, content |-> << "c", "4" >>,
     full_content |-> << "f", "4" >>],
    [url |-> UrlIoTHtml, category |-> << >>, content |-> << "c", "5" >>, excerpt |-> << "e", "5" >>],
    [title |-> << "T", "6" >>, content |-> << "c", "6" >>],
    [url |-> UrlNoSegment, title |-> << >>, content |-> << "c", "7" >>],
    [url |-> UrlHumanThreat, title |-> << "T", "8" >>, content |-> << "c", "8" >>],
    [url |-> UrlHostOnly, title |-> UnknownTitle, content |-> << "c", "9" >>] }

MaxBatch == 3
LongBatchLen == 25

RECURSIVE SeqsUpTo(_, _)
SeqsUpTo(S, n) ==
  IF n = 0 THEN { << >> }
  ELSE LET shorter == SeqsUpTo(S, n - 1)
       IN shorter \cup {Append(s, x) : s \in {t \in shorter : Len(t) = n - 1}, x \in S}

\* a long answer: distinct urls, the first and third record of one category,
\* every other of the rest with an explicit category, four sentences each
LongContent == << "a", ".", " ", "b", ".", " ", "c", ".", " ", " ", "d", "." >>

LongBatch ==
  [i \in 1..LongBatchLen |->
     IF i \in {1, 3}
     THEN [url |-> << "h", "t", "t", "p", "s", ":", "/", "/", "x", "/", "n" >> \o NumText(i), title |-> << "T" >>, content |-> LongContent,
           category |-> Governance]
     ELSE IF i % 2 = 1
     THEN [url |-> << "h", "t", "t", "p", "s", ":", "/", "/", "x", "/", "n" >> \o NumText(i), title |-> << "T" >>, content |-> LongContent]
     ELSE [url |-> << "h", "t", "t", "p", "s", ":", "/", "/", "x", "/", "n" >> \o NumText(i), title |-> << "T" >>, content |-> LongContent,
           category |-> Malware]]

Batches == SeqsUpTo(Records, MaxBatch) \cup {LongBatch}

\* what response.json() gives: a rejection for a body that is not JSON, or the
\* parsed value: null, an object with or without `articles`, or an array
Bodies ==
  {[kind |-> "text"], [kind |-> "null"], [kind |-> "detail"]}
    \cup {[kind |-> "wrapped", articles |-> b] : b \in Batches}
    \cup {[kind |-> "array", articles |-> b] : b \in Batches}

\* loadArticles(): data.articles || (Array.isArray(data) ? data : [])
RawArticles(body) ==
  IF body.kind \in {"wrapped", "array"} THEN body.articles ELSE << >>

\* ------------------------------------------------------------- feed: page
PageSize == 9

InitialState ==
  [articles |-> << >>, filteredArticles |-> << >>, visibleCount |-> PageSize,
   currentFilter |-> AllFilter]

\* the feed page: the state object and the elements the script writes
Feed == [state |-> state, filterBar |-> filterBar, grid |-> grid,
         loadMoreDisplay |-> loadMoreDisplay, viewer |-> viewer]

\* Array.prototype.indexOf, zero-based, -1 when absent
IndexOf(seq, x) ==
  IF \E i \in 1..Len(seq) : seq[i] = x
  THEN (CHOOSE i \in 1..Len(seq) : seq[i] = x /\ \A h \in 1..(i - 1) : seq[h] # x) - 1
  ELSE -1

\* new URL(url).hostname, or 'source' when the url does not parse
Hostname(url) ==
  IF Len(url) > Len(HttpsPrefix) /\ SubSeq(url, 1, Len(HttpsPrefix)) = HttpsPrefix
       /\ url[Len(HttpsPrefix) + 1] # "/"
  THEN LowerCase(Split(SubSeq(url, Len(HttpsPrefix) + 1, Len(url)), "/")[1])
  ELSE SourceText

\* distinct categories of the articles, in order of first appearance
Categories(articles) ==
  LET cats == [i \in 1..Len(articles) |-> articles[i].category]
      first == {i \in 1..Len(cats) : \A h \in 1..(i - 1) : cats[h] # cats[i]}
      F[k \in 0..Len(cats)] ==
        IF k = 0 THEN << >>
        ELSE IF k \in first THEN Append(F[k - 1], cats[k]) ELSE F[k - 1]
  IN F[Len(cats)]

CountOf(articles, cat) == Cardinality({i \in 1..Len(articles) : articles[i].category = cat})

\* renderCategoryFilters()
renderCategoryFilters(F) ==
  LET cats == Categories(F.state.articles) IN
  [F EXCEPT !.filterBar =
     << [arg |-> AllFilter, active |-> TRUE,
         text |-> AllText \o << " ", "(" >> \o NumText(Len(F.state.articles)) \o << ")" >>] >>
     \o [k \in 1..Len(cats) |->
          [arg |-> cats[k], active |-> FALSE,
           text |-> getCategoryIcon(cats[k]) \o << " " >> \o cats[k] \o << " ", "(" >>
                      \o NumText(CountOf(F.state.articles, cats[k])) \o << ")" >>]]]

\* Fault variant of renderArticleGrid: the load-more control is shown whenever
\* there is a card.
renderArticleGrid_AlwaysMore(F) ==
  LET visible == SubSeq(F.state.filteredArticles, 1,
                        Min(F.state.visibleCount, Len(F.state.filteredArticles)))
  IN IF Len(visible) = 0
     THEN [F EXCEPT !.grid = [note |-> TRUE, cards |-> << >>], !.loadMoreDisplay = "none"]
     ELSE [F EXCEPT
             !.grid = [note |-> FALSE,
                       cards |-> [idx \in 1..Len(visible) |->
                                    [originalIndex |-> IndexOf(F.state.articles, visible[idx]),
                                     hero |-> idx = 1,
                                     icon |-> visible[idx].icon,
                                     category |-> visible[idx].category,
                                     title |-> visible[idx].title,
                                     excerpt |-> visible[idx].excerpt,
                                     hostname |-> Hostname(visible[idx].url)]]],
             !.loadMoreDisplay = "flex"]

\* renderArticleGrid()
renderArticleGrid(F) ==
  LET visible == SubSeq(F.state.filteredArticles, 1,
                        Min(F.state.visibleCount, Len(F.state.filteredArticles)))
  IN IF Len(visible) = 0
     THEN [F EXCEPT !.grid = [note |-> TRUE, cards |-> << >>], !.loadMoreDisplay = "none"]
     ELSE [F EXCEPT
             !.grid = [note |-> FALSE,
                       cards |-> [idx \in 1..Len(visible) |->
                                    [originalIndex |-> IndexOf(F.state.articles, visible[idx]),
                                     hero |-> idx = 1,
                                     icon |-> visible[idx].icon,
                                     category |-> visible[idx].category,
                                     title |-> visible[idx].title,
                                     excerpt |-> visible[idx].excerpt,
                                     hostname |-> Hostname(visible[idx].url)]]],
             !.loadMoreDisplay =
                IF Len(F.state.filteredArticles) > F.state.visibleCount THEN "flex" ELSE "none"]

\* the hard-coded sample articles of renderFallbackGrid()
FallbackArticles ==
  << [title |-> << "A", "r", "e", "a", "s", " ", "o", "f", " ", "C", "y", "b", "e", "r", " ", "S", "e", "c", "u", "r", "i", "t", "y" >>,
      excerpt |-> << "C", "y", "b", "e", "r", " ", "s", "e", "c", "u", "r", "i", "t", "y", " ", "i", "s", " ", "m", "a", "d", "e", " ", "u", "p", " ", "o", "f", " ", "t", "h", "r", "e", "e", " ", "m", "a", "i", "n", " ", "a", "r", "e", "a", "s", " ", "-", " ", "p", "h", "y", "s", "i", "c", "a", "l", ",", " ", "t", "e", "c", "h", "n", "i", "c", "a", "l", " ", "a", "n", "d", " ", "h", "u", "m", "a", "n", "." >>,
      icon |-> << "lock" >>, category |-> CyberSecurity,
      url |-> << "h", "t", "t", "p", "s", ":", "/", "/", "c", "y", "b", "e", "r", ".", "u", "k" >>,
      full_content |-> << "C", "y", "b", "e", "r", " ", "s", "e", "c", "u", "r", "i", "t", "y", " ", "i", "s", " ", "m", "a", "d", "e", " ", "u", "p", " ", "o", "f", " ", "t", "h", "r", "e", "e", " ", "m", "a", "i", "n", " ", "a", "r", "e", "a", "s", " ", "-", " ", "p", "h", "y", "s", "i", "c", "a", "l", ",", " ", "t", "e", "c", "h", "n", "i", "c", "a", "l", " ", "a", "n", "d", " ", "h", "u", "m", "a", "n", ".", " ", "U", "n", "d", "e", "r", "s", "t", "a", "n", "d", "i", "n", "g", " ", "a", "l", "l", " ", "t", "h", "r", "e", "e", " ", "i", "s", " ", "e", "s", "s", "e", "n", "t", "i", "a", "l", "." >>],
     [title |-> << "P", "h", "y", "s", "i", "c", "a", "l", " ", "C", "y", "b", "e", "r", " ", "S", "e", "c", "u", "r", "i", "t", "y" >>,
      excerpt |-> << "P", "h", "y", "s", "i", "c", "a", "l", " ", "s", "e", "c", "u", "r", "i", "t", "y", " ", "c", "o", "n", "t", "i", "n", "u", "e", "s", " ", "t", "o", " ", "b", "e", " ", "c", "r", "u", "c", "i", "a", "l", " ", "t", "o", " ", "c", "y", "b", "e", "r", " ", "i", "n", "f", "o", "r", "m", "a", "t", "i", "o", "n", " ", "s", "a", "f", "e", "t", "y", "." >>,
      icon |-> << "office" >>, category |-> PhysicalSecurity,
      url |-> << "h", "t", "t", "p", "s", ":", "/", "/", "c", "y", "b", "e", "r", ".", "u", "k", "/", "p", "h", "y", "s", "i", "c", "a", "l" >>,
      full_content |-> << "P", "h", "y", "s", "i", "c", "a", "l", " ", "s", "e", "c", "u", "r", "i", "t", "y", " ", "h", "a", "s", " ", "b", "e", "e", "n", " ", "i", "m", "p", "o", "r", "t", "a", "n", "t", " ", "l", "o", "n", "g", " ", "b", "e", "f", "o", "r", "e", " ", "c", "y", "b", "e", "r", " ", "s", "e", "c", "u", "r", "i", "t", "y", "." >>],
     [title |-> << "T", "e", "c", "h", "n", "i", "c", "a", "l", " ", "C", "y", "b", "e", "r", " ", "S", "e", "c", "u", "r", "i", "t", "y" >>,
      excerpt |-> << "T", "e", "c", "h", "n", "i", "c", "a", "l", " ", "s", "e", "c", "u", "r", "i", "t", "y", " ", "c", "o", "v", "e", "r", "s", " ", "a", "n", "t", "i", "v", "i", "r", "u", "s", ",", " ", "e", "t", "h", "i", "c", "a", "l", " ", "h", "a", "c", "k", "i", "n", "g", ",", " ", "a", "n", "d", " ", "v", "u", "l", "n", "e", "r", "a", "b", "i", "l", "i", "t", "y", " ", "a", "s", "s", "e", "s", "s", "m", "e", "n", "t", "s", "." >>,
      icon |-> << "laptop" >>, category |-> TechnicalSecurity,
      url |-> << "h", "t", "t", "p", "s", ":", "/", "/", "c", "y", "b", "e", "r", ".", "u", "k", "/", "t", "e", "c", "h", "n", "i", "c", "a", "l" >>,
      full_content |-> << "T", "e", "c", "h", "n", "i", "c", "a", "l", " ", "c", "y", "b", "e", "r", " ", "s", "e", "c", "u", "r", "i", "t", "y", " ", "i", "n", "v", "o", "l", "v", "e", "s", " ", "p", "r", "o", "t", "e", "c", "t", "i", "n", "g", " ", "o", "u", "r", "s", "e", "l", "v", "e", "s", " ", "d", "i", "g", "i", "t", "a", "l", "l", "y", "." >>],
     [title |-> << "H", "u", "m", "a", "n", " ", "C", "y", "b", "e", "r", " ", "S", "e", "c", "u", "r", "i", "t", "y" >>,
      excerpt |-> << "P", "e", "o", "p", "l", "e", " ", "p", "l", "a", "y", " ", "a", " ", "c", "r", "u", "c", "i", "a", "l", " ", "r", "o", "l", "e", " ", "i", "n", " ", "t", "h", "e", "i", "r", " ", "o", "w", "n", " ", "c", "y", "b", "e", "r", " ", "s", "e", "c", "u", "r", "i", "t", "y", "." >>,
      icon |-> << "people" >>, category |-> HumanSecurity,
      url |-> << "h", "t", "t", "p", "s", ":", "/", "/", "c", "y", "b", "e", "r", ".", "u", "k", "/", "h", "u", "m", "a", "n" >>,
      full_content |-> << "A", "w", "a", "r", "e", "n", "e", "s", "s", "-", "r", "a", "i", "s", "i", "n", "g", " ", "i", "s", " ", "k", "e", "y", " ", "t", "o", " ", "t", "h", "e", " ", "h", "u", "m", "a", "n", " ", "s", "i", "d", "e", " ", "o", "f", " ", "s", "e", "c", "u", "r", "i", "t", "y", "." >>] >>

\* renderFallbackGrid()
renderFallbackGrid(F) ==
  renderArticleGrid(renderCategoryFilters(
    [F EXCEPT !.state.articles = FallbackArticles,
              !.state.filteredArticles = FallbackArticles]))

\* loadArticles() once response.json() has given data
loadArticlesData(F, rawArticles) ==
  LET articles == processArticles(rawArticles) IN
  renderArticleGrid(renderCategoryFilters(
    [F EXCEPT !.state.articles = articles, !.state.filteredArticles = articles]))

\* Fault variant of filterArticles: the page count is kept.
filterArticles_KeepCount(F, category) ==
  LET filtered == IF category = AllFilter THEN F.state.articles
                  ELSE SelectSeq(F.state.articles, LAMBDA a : a.category = category)
      F1 == [F EXCEPT !.state.currentFilter = category,
                      !.state.filteredArticles = filtered]
      F2 == [F1 EXCEPT !.filterBar =
               [k \in 1..Len(@) |->
                  LET isAll == category = AllFilter
                                 /\ SubSeq(@[k].text, 1, Len(AllText)) = AllText
                      isMatch == ~isAll /\ Includes(@[k].text, category)
                  IN [@[k] EXCEPT !.active = isAll \/ isMatch]]]
  IN renderArticleGrid(F2)

\* Fault variant of filterArticles: the filter is recorded but the list is not
\* recomputed.
filterArticles_KeepList(F, category) ==
  LET F1 == [F EXCEPT !.state.currentFilter = category,
                      !.state.visibleCount = PageSize]
  IN renderArticleGrid(F1)

\* filterArticles(category)
filterArticles(F, category) ==
  LET filtered == IF category = AllFilter THEN F.state.articles
                  ELSE SelectSeq(F.state.articles, LAMBDA a : a.category = category)
      F1 == [F EXCEPT !.state.currentFilter = category,
                      !.state.visibleCount = PageSize,
                      !.state.filteredArticles = filtered]
      F2 == [F1 EXCEPT !.filterBar =
               [k \in 1..Len(@) |->
                  LET isAll == category = AllFilter
                                 /\ SubSeq(@[k].text, 1, Len(AllText)) = AllText
                      isMatch == ~isAll /\ Includes(@[k].text, category)
                  IN [@[k] EXCEPT !.active = isAll \/ isMatch]]]
  IN renderArticleGrid(F2)

\* loadMoreArticles()
loadMoreArticles(F) ==
  renderArticleGrid([F EXCEPT !.state.visibleCount = @ + PageSize])

\* ----------------------------------------------------------- feed: reader
SourceLabel == << "S", "o", "u", "r", "c", "e" >>

\* the reader as served: hidden, nothing written into it yet
InitialViewer ==
  [open |-> FALSE, index |-> -1, tag |-> << >>, title |-> << >>, source |-> << >>,
   paragraphs |-> << >>, href |-> << >>, suggested |-> << >>]

IsSpace(c) == c = " "

\* rawContent.split(/(?<=\.)\s+/): cut at each run of white space that follows a full stop
RECURSIVE SplitSentences(_)
SplitSentences(s) ==
  LET cuts == {i \in 2..Len(s) : IsSpace(s[i]) /\ s[i - 1] = "."} IN
  IF cuts = {} THEN << s >>
  ELSE LET i == CHOOSE c \in cuts : \A d \in cuts : c <= d
           after == {k \in i..Len(s) : ~IsSpace(s[k])}
           j == IF after = {} THEN Len(s) + 1 ELSE CHOOSE k \in after : \A d \in after : k <= d
       IN << SubSeq(s, 1, i - 1) >> \o SplitSentences(SubSeq(s, j, Len(s)))

\* Array.prototype.join(' ')
RECURSIVE JoinSpace(_)
JoinSpace(parts) ==
  IF parts = << >> THEN << >>
  ELSE IF Len(parts) = 1 THEN parts[1]
  ELSE parts[1] \o << " " >> \o JoinSpace(Tail(parts))

\* openArticle(): three sentences to a paragraph, the rest in the last one
RECURSIVE Paragraphs(_)
Paragraphs(sentences) ==
  IF sentences = << >> THEN << >>
  ELSE IF Len(sentences) <= 3 THEN << JoinSpace(sentences) >>
  ELSE << JoinSpace(SubSeq(sentences, 1, 3)) >>
         \o Paragraphs(SubSeq(sentences, 4, Len(sentences)))

\* new URL(url) does not throw
UrlParses(url) ==
  /\ Len(url) > Len(HttpsPrefix)
  /\ SubSeq(url, 1, Len(HttpsPrefix)) = HttpsPrefix
  /\ url[Len(HttpsPrefix) + 1] # "/"

\* openArticle(): new URL(article.url).hostname, or 'Source' when the url does not parse
ViewerSource(url) == IF UrlParses(url) THEN Hostname(url) ELSE SourceLabel

\* Fault variant of renderSuggestedArticles: the opened article is not filtered out.
renderSuggestedArticles_KeepCurrent(F, currentIndex) ==
  LET articles == F.state.articles
      current == articles[currentIndex + 1]
      related == [i \in 1..Len(articles) |-> i - 1]
      same == SelectSeq(related, LAMBDA i : articles[i + 1].category = current.category)
      other == SelectSeq(related, LAMBDA i : articles[i + 1].category # current.category)
      sorted == same \o other
      suggestions == SubSeq(sorted, 1, Min(3, Len(sorted)))
  IN [F EXCEPT !.viewer.suggested =
        [k \in 1..Len(suggestions) |->
           [_idx |-> suggestions[k], icon |-> articles[suggestions[k] + 1].icon,
            category |-> articles[suggestions[k] + 1].category,
            title |-> articles[suggestions[k] + 1].title]]]

\* renderSuggestedArticles(currentIndex): the other articles, those of the opened
\* article's category first (the sort is stable), cut to three cards
renderSuggestedArticles(F, currentIndex) ==
  LET articles == F.state.articles
      current == articles[currentIndex + 1]
      related == SelectSeq([i \in 1..Len(articles) |-> i - 1], LAMBDA i : i # currentIndex)
      same == SelectSeq(related, LAMBDA i : articles[i + 1].category = current.category)
      other == SelectSeq(related, LAMBDA i : articles[i + 1].category # current.category)
      sorted == same \o other
      suggestions == SubSeq(sorted, 1, Min(3, Len(sorted)))
  IN [F EXCEPT !.viewer.suggested =
        [k \in 1..Len(suggestions) |->
           [_idx |-> suggestions[k], icon |-> articles[suggestions[k] + 1].icon,
            category |-> articles[suggestions[k] + 1].category,
            title |-> articles[suggestions[k] + 1].title]]]

\* Fault variant of openArticle: the article is looked up by the position of the
\* first article with the card's category, not by the index passed.
openArticle_ByCategory(F, index) ==
  IF index < 0 \/ index >= Len(F.state.articles) THEN F
  ELSE LET cat == F.state.articles[index + 1].category
           first == CHOOSE i \in 1..Len(F.state.articles) :
                      /\ F.state.articles[i].category = cat
                      /\ \A h \in 1..(i - 1) : F.state.articles[h].category # cat
           article == F.state.articles[first]
           rawContent == IF article.full_content # << >> THEN article.full_content
                         ELSE article.excerpt
           written == [F EXCEPT !.viewer.tag = article.category,
                                !.viewer.title = article.title,
                                !.viewer.source = ViewerSource(article.url),
                                !.viewer.paragraphs = Paragraphs(SplitSentences(rawContent)),
                                !.viewer.href = article.url,
                                !.viewer.index = index]
       IN [renderSuggestedArticles(written, index) EXCEPT !.viewer.open = TRUE]

\* openArticle(index)
openArticle(F, index) ==
  IF index < 0 \/ index >= Len(F.state.articles) THEN F
  ELSE LET article == F.state.articles[index + 1]
           rawContent == IF article.full_content # << >> THEN article.full_content
                         ELSE article.excerpt
           written == [F EXCEPT !.viewer.tag = article.category,
                                !.viewer.title = article.title,
                                !.viewer.source = ViewerSource(article.url),
                                !.viewer.paragraphs = Paragraphs(SplitSentences(rawContent)),
                                !.viewer.href = article.url,
                                !.viewer.index = index]
       IN [renderSuggestedArticles(written, index) EXCEPT !.viewer.open = TRUE]

\* closeArticle()
closeArticle(F) == [F EXCEPT !.viewer.open = FALSE]

SetFeed(F) ==
  /\ state' = F.state
  /\ filterBar' = F.filterBar
  /\ grid' = F.grid
  /\ loadMoreDisplay' = F.loadMoreDisplay
  /\ viewer' = F.viewer

\* the page as served: loadArticles() has called fetch
FeedInit ==
  /\ state = InitialState
  /\ filterBar = << >>
  /\ grid = [note |-> FALSE, cards |-> << >>]
  /\ loadMoreDisplay = "unset"
  /\ viewer = InitialViewer
  /\ load = [pc |-> "fetch"]
  /\ feedOp = "init"

\* loadArticles(): fetch rejects (the backend is unreachable)
LoadArticlesOffline ==
  /\ load.pc = "fetch"
  /\ SetFeed(renderFallbackGrid(Feed))
  /\ load' = [pc |-> "done", failed |-> TRUE, caught |-> TRUE]
  /\ feedOp' = "load"

\* loadArticles(): a response arrives, with a success status or not
LoadArticlesResponse(ok, body) ==
  /\ load.pc = "fetch"
  /\ IF body.kind \in {"text", "null"}
     THEN /\ SetFeed(renderFallbackGrid(Feed))
          /\ load' = [pc |-> "done", failed |-> ~ok, caught |-> TRUE]
     ELSE /\ SetFeed(loadArticlesData(Feed, RawArticles(body)))
          /\ load' = [pc |-> "done", failed |-> ~ok, caught |-> FALSE,
                      rawArticles |-> RawArticles(body)]
  /\ feedOp' = "load"

\* a click on button k of the filter bar
FilterArticles(k) ==
  /\ k \in 1..Len(filterBar)
  /\ SetFeed(filterArticles(Feed, filterBar[k].arg))
  /\ feedOp' = "filter"
  /\ UNCHANGED load

\* a click on the load-more button, while it is not hidden
LoadMoreArticles ==
  /\ loadMoreDisplay # "none"
  /\ SetFeed(loadMoreArticles(Feed))
  /\ feedOp' = "loadMore"
  /\ UNCHANGED load

\* a click on card k of the grid, while the feed is shown
OpenArticle(k) ==
  /\ ~viewer.open
  /\ k \in 1..Len(grid.cards)
  /\ SetFeed(openArticle(Feed, grid.cards[k].originalIndex))
  /\ feedOp' = "open"
  /\ UNCHANGED load

\* a click on card j of the related articles, while the reader is shown
OpenSuggested(j) ==
  /\ viewer.open
  /\ j \in 1..Len(viewer.suggested)
  /\ SetFeed(openArticle(Feed, viewer.suggested[j]._idx))
  /\ feedOp' = "openSuggested"
  /\ UNCHANGED load

\* a click on the reader's back button
CloseArticle ==
  /\ viewer.open
  /\ SetFeed(closeArticle(Feed))
  /\ feedOp' = "close"
  /\ UNCHANGED load

FeedStep ==
  \/ LoadArticlesOffline
  \/ \E ok \in BOOLEAN, body \in Bodies : LoadArticlesResponse(ok, body)
  \/ \E k \in 1..Len(filterBar) : FilterArticles(k)
  \/ LoadMoreArticles
  \/ \E k \in 1..Len(grid.cards) : OpenArticle(k)
  \/ \E j \in 1..Len(viewer.suggested) : OpenSuggested(j)
  \/ CloseArticle

\* ---------------------------------------------------------------- widget
LiveReq == MaxReq + 1

WidgetInitial ==
  [els |-> << >>, sends |-> [r \in 1..LiveReq |-> "idle"]]

WidgetInit == widget = WidgetInitial

\* removeTypingIndicator(id): getElementById finds the first element with the
\* id "typing-indicator", whichever call added it
removeTypingIndicator(els) ==
  IF \E k \in 1..Len(els) : els[k] = "typing"
  THEN LET k == CHOOSE j \in 1..Len(els) :
                  els[j] = "typing" /\ \A h \in 1..(j - 1) : els[h] # "typing"
       IN SubSeq(els, 1, k - 1) \o SubSeq(els, k + 1, Len(els))
  ELSE els

\* sendChatMessage()'s catch block
widgetCatch(els) == Append(removeTypingIndicator(els), "offline")

\* sendChatMessage() up to `await fetch`; at most LiveReq messages are sent
WidgetSend(input) ==
  /\ Cardinality({k \in 1..Len(widget.els) : widget.els[k] = "user"}) < LiveReq
  /\ IF Trim(input) = << >>
     THEN UNCHANGED widget
     ELSE \E r \in 1..LiveReq :
            /\ widget.sends[r] = "idle"
            /\ \A h \in 1..(r - 1) : widget.sends[h] # "idle"
            /\ widget' = [els |-> widget.els \o << "user", "typing" >>,
                          sends |-> [widget.sends EXCEPT ![r] = "fetch"]]

\* fetch rejects
WidgetFetchReject(r) ==
  /\ widget.sends[r] = "fetch"
  /\ widget' = [els |-> widgetCatch(widget.els),
                sends |-> [widget.sends EXCEPT ![r] = "idle"]]

\* fetch resolves: the indicator is removed, then response.ok is tested
WidgetFetchResponse(r, ok) ==
  /\ widget.sends[r] = "fetch"
  /\ IF ok
     THEN widget' = [els |-> removeTypingIndicator(widget.els),
                     sends |-> [widget.sends EXCEPT ![r] = "json"]]
     ELSE widget' = [els |-> widgetCatch(removeTypingIndicator(widget.els)),
                     sends |-> [widget.sends EXCEPT ![r] = "idle"]]

\* response.json() settles: with an answer, with an object that has none
\* (addChatMessage throws on text.replace), or with a rejection
WidgetJson(r, outcome) ==
  /\ widget.sends[r] = "json"
  /\ widget' = [els |-> IF outcome = "answer" THEN Append(widget.els, "bot")
                        ELSE widgetCatch(widget.els),
                sends |-> [widget.sends EXCEPT ![r] = "idle"]]

\* the tasks that finish or advance the call suspended in slot r
WidgetRespond(r) ==
  \/ WidgetFetchReject(r)
  \/ \E ok \in BOOLEAN : WidgetFetchResponse(r, ok)
  \/ \E outcome \in {"answer", "noanswer", "notjson"} : WidgetJson(r, outcome)

WidgetStep ==
  \/ \E input \in Inputs : WidgetSend(input)
  \/ \E r \in 1..LiveReq : WidgetRespond(r)

\* ------------------------------------------------------------------ specs
Init == ChatInit /\ FeedInit /\ WidgetInit

\* The chat page runs; the feed page is left as opened.
Next == ChatStep /\ UNCHANGED << feedVars, widget >>

Spec == Init /\ [][Next]_vars

\* The feed page runs; the chat page is left as opened.
FeedNext == FeedStep /\ UNCHANGED << vars, widget >>

SpecFeed == Init /\ [][FeedNext]_feedVars

\* The chat page with room for one more request in flight than Spec has.
LiveInit ==
  /\ now = 0
  /\ SetPageNow(Startup(<< >>, JSNull, 0))
  /\ requests = [r \in 1..LiveReq |-> IdleRequest]
  /\ lastOp = [op |-> "startup", tag |-> "created"]
  /\ FeedInit
  /\ WidgetInit

\* the response task of the call suspended in slot r
Respond(r) ==
  \/ RequestReject(r)
  \/ \E ok \in BOOLEAN, reply \in Replies : RequestResolve(r, ok, reply)

LiveChats == MaxChats - 1

\* the chat page's tasks around a send: new chats, selections, sends, responses
LiveStep ==
  \/ \E t \in Times : Len(chats) < LiveChats /\ CreateNewChat(t)
  \/ \E k \in 1..Len(sidebar) : SelectChat(k)
  \/ \E input \in Inputs : SendMessage(input)
  \/ \E r \in DOMAIN requests : Respond(r)

liveVars == << vars, widget >>

\* A tab shows the chat page or the feed page with its widget, never both.
LiveNext ==
  \/ LiveStep /\ widget = WidgetInitial /\ UNCHANGED << feedVars, widget >>
  \/ WidgetStep /\ lastOp.op = "startup" /\ UNCHANGED << vars, feedVars >>

\* ids no chat has: a string createNewChat never makes, and null
AbsentIds == {"chat_x", JSNull}

\* deleteChat(id) called with an id that no chat has
DeleteAbsent(id) ==
  /\ FindIndex(chats, id) = 0
  /\ SetPage(deleteChat(Page, id, now, FreshRef(chats, requests)))
  /\ lastOp' = [op |-> "deleteChat", tag |-> "absent"]
  /\ UNCHANGED << requests, now >>

\* activeChatId comes to name no chat. No handler of the page does this; the
\* step puts the page where the test `if (!chat) return` of sendMessage applies.
LoseActiveChat(id) ==
  /\ FindIndex(chats, id) = 0
  /\ activeChatId' = id
  /\ lastOp' = [op |-> "loseActive", tag |-> ""]
  /\ UNCHANGED << chats, localStorage, messagesEl, sidebar, requests, now >>

\* the chat page's tasks, and the calls that name an absent id
GuardStep ==
  \/ \E t \in Times : Len(chats) < LiveChats /\ CreateNewChat(t)
  \/ \E k \in 1..Len(sidebar) : SelectChat(k)
  \/ \E k \in 1..Len(sidebar), t \in Times : DeleteChat(k, t)
  \/ \E input \in Inputs : SendMessage(input)
  \/ \E r \in DOMAIN requests : Respond(r)
  \/ \E id \in AbsentIds : DeleteAbsent(id)
  \/ \E id \in AbsentIds : LoseActiveChat(id)

GuardNext == GuardStep /\ UNCHANGED << feedVars, widget >>

SpecGuard == Init /\ [][GuardNext]_vars

\* The backend call of every suspended send eventually resolves or rejects.
SpecLive ==
  /\ LiveInit
  /\ [][LiveNext]_liveVars
  /\ \A r \in 1..LiveReq :
       /\ WF_liveVars(Respond(r) /\ UNCHANGED << feedVars, widget >>)
       /\ WF_liveVars(WidgetRespond(r) /\ UNCHANGED << vars, feedVars >>)

\* ===================================================================
\* Properties
\* ===================================================================

\* a chat's own properties: what JSON.stringify sees of it
Fields(c) == [id |-> c.id, title |-> c.title, messages |-> c.messages, pinned |-> c.pinned]

SameChats(a, b) == Len(a) = Len(b) /\ \A i \in 1..Len(a) : Fields(a[i]) = Fields(b[i])

SeedMessage == [sender |-> "bot", text |-> Greeting]

\* C1: after every handler, activeChatId is the id of a chat in the chats array.
C1_ActiveChatExists == \E i \in 1..Len(chats) : chats[i].id = activeChatId

C1_Witness ==
  /\ lastOp = [op |-> "deleteChat", tag |-> "activeOther"]
  /\ Len(chats) >= 1
  /\ chats[1].id = activeChatId

\* C2: write-through persistence: after every task, the items `chats` and
\* `activeChatId` of localStorage are the serialization of the in-memory
\* chats array and activeChatId.
C2_WriteThrough ==
  /\ localStorage.chats = Stringify(chats)
  /\ localStorage.activeChatId = ToStr(activeChatId)

C2_Witness ==
  /\ lastOp = [op |-> "response", tag |-> "reply"]
  /\ \E i \in 1..Len(chats) :
       /\ Len(chats[i].messages) >= 3
       /\ Last(chats[i].messages).sender = "bot"
       /\ Last(localStorage.chats[i].messages).sender = "bot"

\* C3: the chats array is never empty once startup has run.
C3_AtLeastOneChat == Len(chats) >= 1

C3_Witness == lastOp = [op |-> "deleteChat", tag |-> "sole"] /\ Len(chats) = 1

\* C4: deleting the active chat while another remains makes the first chat of
\* the remaining array (chats[0] after the splice) active, and creates none.
C4_DeleteActiveSelectsFirst ==
  [][ lastOp'.op = "deleteChat" /\ lastOp'.tag = "activeOther"
      => /\ chats' = Splice1(chats, FindIndex(chats, activeChatId))
         /\ activeChatId' = chats'[1].id ]_vars

\* the case with two chats remaining, the second of them with another id
C4_Witness ==
  /\ lastOp = [op |-> "deleteChat", tag |-> "activeOther"]
  /\ Len(chats) >= 2
  /\ chats[2].id # chats[1].id
  /\ activeChatId = chats[1].id

\* C5: deleting the only chat leaves exactly one chat, a new object titled
\* "New Chat" whose messages are the seed greeting alone, unpinned and active,
\* and localStorage holds just that.
C5_DeleteSoleCreatesFresh ==
  [][ lastOp'.op = "deleteChat" /\ lastOp'.tag = "sole"
      => /\ Len(chats') = 1
         /\ chats'[1].ref \notin {chats[i].ref : i \in 1..Len(chats)}
         /\ chats'[1].title = DefaultTitle
         /\ chats'[1].messages = << SeedMessage >>
         /\ chats'[1].pinned = FALSE
         /\ activeChatId' = chats'[1].id
         /\ localStorage'.chats = Stringify(chats')
         /\ localStorage'.activeChatId = chats'[1].id ]_vars

\* the first chat of the page (identity 1) was deleted; its successor is shown
C5_Witness ==
  /\ lastOp = [op |-> "deleteChat", tag |-> "sole"]
  /\ chats[1].ref # 1
  /\ chats[1].messages = << SeedMessage >>

\* C6 (as claimed): no two chats in the array share an id.
C6_IdsUnique ==
  \A i, j \in 1..Len(chats) : i # j => chats[i].id # chats[j].id

\* C7: round trip: loading what saveState stored, as the script's top level
\* does, gives the same chats in the same order and the same activeChatId,
\* and creates no chat.
C7_RoundTrip ==
  LET P == Startup(localStorage.chats, localStorage.activeChatId, now) IN
  /\ SameChats(P.chats, chats)
  /\ P.activeChatId = activeChatId

\* a store holding a pinned chat and a reply whose text is undefined
C7_Witness ==
  /\ \E i \in 1..Len(chats) : chats[i].pinned
  /\ \E i \in 1..Len(chats) : \E k \in 1..Len(chats[i].messages) :
       chats[i].messages[k].text = Undefined
  /\ Len(chats) >= 2
  /\ activeChatId = chats[2].id

\* the user messages of a chat, in order
RECURSIVE UserTexts(_)
UserTexts(ms) ==
  IF ms = << >> THEN << >>
  ELSE (IF Head(ms).sender = "user" THEN << Head(ms).text >> ELSE << >>) \o UserTexts(Tail(ms))

\* C8 (as claimed): a chat's title is "New Chat" until its first user message,
\* and from then on the first 30 characters of that message.
C8_TitleFromFirstUserMessage ==
  \A i \in 1..Len(chats) :
    LET us == UserTexts(chats[i].messages) IN
    chats[i].title = IF us = << >> THEN DefaultTitle ELSE Slice0(us[1], TitleLen)

\* an input made of white space only (or of nothing)
IsBlank(input) == \A k \in 1..Len(input) : input[k] \in WhiteSpace

\* C9: sendMessage with an empty or white-space-only input changes nothing:
\* no message stored or shown, no typing element, no request.
C9_BlankSendIsNoOp ==
  [][ \A input \in {x \in Inputs : IsBlank(x)} :
        SendMessage(input) => UNCHANGED << pageVars, requests >> ]_vars

C9_Witness ==
  /\ lastOp = [op |-> "sendMessage", tag |-> "blank"]
  /\ \E x \in Inputs : IsBlank(x) /\ x # << >>

ErrorElement == [cls |-> "message bot", text |-> ServerErrorText, req |-> 0]

\* C10 (as claimed): after a failed request some chat's stored and persisted
\* message list ends with the fixed bot message.
C10_FailureMessageStored ==
  lastOp = [op |-> "response", tag |-> "failed"]
    => \E i \in 1..Len(chats) :
         /\ Last(chats[i].messages) = [sender |-> "bot", text |-> ServerErrorText]
         /\ Last(localStorage.chats[i].messages) = [sender |-> "bot", text |-> ServerErrorText]

\* C10 (amended): when the request of a send fails, its typing element is
\* removed and the fixed bot message is appended to the message view only:
\* the chats array, activeChatId and localStorage are unchanged.
C10_FailureMessageShownOnly ==
  [][ lastOp'.op = "response" /\ lastOp'.tag = "failed"
      => /\ \A r \in 1..MaxReq :
              requests[r].pc = "await" /\ requests'[r].pc = "idle"
                => /\ \A k \in 1..Len(messagesEl') : messagesEl'[k].req # r
                   /\ messagesEl' = Append(RemoveTyping(messagesEl, r), ErrorElement)
         /\ Last(messagesEl') = ErrorElement
         /\ UNCHANGED << chats, activeChatId, localStorage >> ]_vars

\* the failure of a request whose typing element was still shown
C10_Witness ==
  /\ lastOp = [op |-> "response", tag |-> "failed"]
  /\ Len(messagesEl) >= 3
  /\ Last(messagesEl) = ErrorElement
  /\ messagesEl[Len(messagesEl) - 1].cls = "message user"

\* the texts sendMessage can store as a user message
UserTextsSent == {Trim(x) : x \in Inputs} \ {<< >>}

\* a stored message is a user message, the greeting or a reply
IsRealMessage(m) ==
  \/ m.sender = "user" /\ m.text \in UserTextsSent
  \/ m = SeedMessage
  \/ m.sender = "bot" /\ m.text \in Replies

\* C11: the typing indicator never enters a chat's stored messages nor the
\* persisted `chats` item: in every state, also while a request is in flight,
\* what a load of localStorage yields holds only user messages, the greeting
\* and replies.
C11_TypingNeverStored ==
  LET loaded == Parse(localStorage.chats) IN
  /\ \A i \in 1..Len(loaded) : \A k \in 1..Len(loaded[i].messages) :
       /\ IsRealMessage(loaded[i].messages[k])
       /\ loaded[i].messages[k].text # TypingText
  /\ \A i \in 1..Len(chats) : \A k \in 1..Len(chats[i].messages) :
       /\ IsRealMessage(chats[i].messages[k])
       /\ chats[i].messages[k].text # TypingText

\* a request is in flight, its typing element is shown, and the persisted
\* active chat ends with the user's message
C11_Witness ==
  /\ \E r \in 1..MaxReq : requests[r].pc = "await"
  /\ \E k \in 1..Len(messagesEl) : messagesEl[k].req # 0 /\ messagesEl[k].text = TypingText
  /\ \E i \in 1..Len(localStorage.chats) :
       /\ localStorage.chats[i].id = activeChatId
       /\ Last(localStorage.chats[i].messages).sender = "user"

\* the response task of this step: the slot it ran in
RespondingSlots == {r \in 1..MaxReq : requests[r].pc = "await" /\ requests'[r].pc = "idle"}

\* C12 (as claimed): when the response to a send made in chat A arrives while
\* another chat B is active, the reply is appended to B's stored messages and
\* not to A's.
C12_ReplyStoredInActive ==
  [][ lastOp'.op = "response" /\ lastOp'.tag \in {"reply", "replyNotOk"}
      => \A r \in RespondingSlots :
           LET a == IndexOfRef(chats, requests[r].chat)
               b == FindIndex(chats, activeChatId)
           IN a # 0 /\ chats[a].id # activeChatId
                => /\ Len(chats'[b].messages) = Len(chats[b].messages) + 1
                   /\ chats'[a].messages = chats[a].messages ]_vars

\* C12 (amended): the reply is appended to the stored messages of the chat the
\* message was sent from (the object sendMessage captured), whichever chat is
\* active when the response arrives; no other chat changes, activeChatId is
\* kept, and the reply is shown at the end of the message view.
C12_ReplyStoredInOrigin ==
  [][ lastOp'.op = "response" /\ lastOp'.tag \in {"reply", "replyNotOk"}
      => \A r \in RespondingSlots :
           LET a == IndexOfRef(chats, requests[r].chat) IN
           /\ a # 0 =>
                /\ Len(chats'[a].messages) = Len(chats[a].messages) + 1
                /\ Last(chats'[a].messages).sender = "bot"
                /\ chats' = [chats EXCEPT ![a].messages = Append(@, Last(chats'[a].messages))]
                /\ Last(messagesEl').text = DomText(Last(chats'[a].messages).text)
           /\ activeChatId' = activeChatId
           /\ Len(messagesEl') = Len(RemoveTyping(messagesEl, r)) + 1
           /\ Last(messagesEl').cls = "message bot" ]_vars

\* the reply went to a chat that is not the active one: the active chat holds
\* the greeting alone while the view shows the greeting and the reply
C12_Witness ==
  /\ lastOp = [op |-> "response", tag |-> "reply"]
  /\ \E a \in 1..Len(chats) :
       /\ chats[a].id # activeChatId
       /\ Len(chats[a].messages) = 3
       /\ Last(chats[a].messages).sender = "bot"
  /\ \E b \in 1..Len(chats) :
       /\ chats[b].id = activeChatId
       /\ chats[b].messages = << SeedMessage >>
  /\ Len(messagesEl) = 2

\* C13 (as claimed): a response with a non-success status takes the failure
\* path: nothing is appended to the chat's messages and the fixed failure
\* message is shown.
C13_NotOkTakesFailurePath ==
  [][ lastOp'.op = "response" /\ lastOp'.tag = "replyNotOk"
      => chats' = chats /\ Last(messagesEl') = ErrorElement ]_vars

\* ---------------------------------------------------------------- the feed
\* C14 (as claimed): when the article fetch fails, by a network failure or a
\* non-success status, loadArticles leaves `articles` equal to the four
\* fallback articles and `filteredArticles` equal to `articles`; the feed is
\* not left empty.
C14_FailedFetchGivesFallback ==
  feedOp = "load" /\ load.failed
    => /\ state.articles = FallbackArticles
       /\ state.filteredArticles = state.articles
       /\ ~grid.note

\* a record processArticles does not reject for a missing url or content
Usable(item) == Has(item, "url") /\ ContentOf(item) # << >>

\* the records of a batch that get an Article: for each url, the first usable one
Accepted(rawArticles) ==
  {k \in 1..Len(rawArticles) :
     /\ Usable(rawArticles[k])
     /\ \A h \in 1..(k - 1) : ~(Usable(rawArticles[h]) /\ rawArticles[h].url = rawArticles[k].url)}

\* the record the i-th Article was built from
SourceOf(rawArticles, i) ==
  CHOOSE k \in Accepted(rawArticles) :
    Cardinality({h \in Accepted(rawArticles) : h <= k}) = i

\* the urls that two or more records of the batch share
SharedUrls(rawArticles) ==
  {rawArticles[k].url : k \in {j \in 1..Len(rawArticles) :
     /\ Has(rawArticles[j], "url")
     /\ \E h \in 1..Len(rawArticles) :
          h # j /\ Has(rawArticles[h], "url") /\ rawArticles[h].url = rawArticles[j].url}}

\* the feed shows what processArticles made of load.rawArticles
Processed == feedOp = "load" /\ ~load.caught

\* C15 (as claimed): for a batch in which two or more records share a url, the
\* output has exactly one Article with that url, built from the first record in
\* input order with that url.
C15_FirstRecordWins ==
  Processed =>
    \A u \in SharedUrls(load.rawArticles) :
      LET first == CHOOSE k \in 1..Len(load.rawArticles) :
                     /\ Has(load.rawArticles[k], "url") /\ load.rawArticles[k].url = u
                     /\ \A h \in 1..(k - 1) :
                          ~(Has(load.rawArticles[h], "url") /\ load.rawArticles[h].url = u)
      IN /\ Cardinality({i \in 1..Len(state.articles) : state.articles[i].url = u}) = 1
         /\ \E i \in 1..Len(state.articles) :
              state.articles[i] = MakeArticle(load.rawArticles[first])

\* C15 (amended): records without content are skipped before their url is
\* remembered, so for every url of the batch the output has exactly one Article
\* if some record with that url has content, built from the first such record,
\* and none otherwise; the Articles keep the input order.
C15_FirstUsableRecordWins ==
  Processed =>
    LET raw == load.rawArticles IN
    /\ Len(state.articles) = Cardinality(Accepted(raw))
    /\ \A i \in 1..Len(state.articles) :
         state.articles[i] = MakeArticle(raw[SourceOf(raw, i)])
    /\ \A u \in SharedUrls(raw) :
         Cardinality({i \in 1..Len(state.articles) : state.articles[i].url = u})
           = IF \E k \in 1..Len(raw) : Usable(raw[k]) /\ raw[k].url = u THEN 1 ELSE 0

\* a record without content came first, then two different records with content,
\* all with one url: the Article is the one of the second record
C15_Witness ==
  /\ Processed
  /\ Len(load.rawArticles) = 3
  /\ \A k \in 1..3 : Has(load.rawArticles[k], "url") /\ load.rawArticles[k].url = UrlABC
  /\ ~Usable(load.rawArticles[1])
  /\ Usable(load.rawArticles[2]) /\ Usable(load.rawArticles[3])
  /\ load.rawArticles[2] # load.rawArticles[3]
  /\ state.articles = << MakeArticle(load.rawArticles[2]) >>

\* the last non-empty '/'-separated segment of a url that has one
LastSegment(url) ==
  LET e == CHOOSE i \in 1..Len(url) : url[i] # "/" /\ \A h \in (i + 1)..Len(url) : url[h] = "/"
      b == CHOOSE i \in 1..e : /\ \A h \in i..e : url[h] # "/"
                               /\ (i = 1 \/ url[i - 1] = "/")
  IN SubSeq(url, b, e)

\* the first letter of each word capitalised: a word is a maximal run of
\* letters, digits and underscores
RECURSIVE CapitaliseWords(_)
CapitaliseWords(t) ==
  IF t = << >> THEN << >>
  ELSE IF ~IsWordChar(t[1]) THEN << t[1] >> \o CapitaliseWords(Tail(t))
  ELSE LET n == CHOOSE m \in 1..Len(t) :
                  /\ \A h \in 1..m : IsWordChar(t[h])
                  /\ (m = Len(t) \/ ~IsWordChar(t[m + 1]))
       IN << ToUpper(t[1]) >> \o SubSeq(t, 2, n) \o CapitaliseWords(SubSeq(t, n + 1, Len(t)))

HyphensToSpaces(t) == [i \in 1..Len(t) |-> IF t[i] = "-" THEN " " ELSE t[i]]

\* C16: an accepted record's title is kept unless it is absent, "Unknown" or
\* equal to the url; otherwise the title is the last non-empty '/'-separated
\* segment of the url with hyphens turned into spaces and the first letter of
\* each word capitalised.
C16_TitleKeptOrDerived ==
  Processed =>
    \A i \in 1..Len(state.articles) :
      LET item == load.rawArticles[SourceOf(load.rawArticles, i)] IN
      (\E h \in 1..Len(item.url) : item.url[h] # "/") =>
        state.articles[i].title =
          IF Has(item, "title") /\ item.title # UnknownTitle /\ item.title # item.url
          THEN item.title
          ELSE CapitaliseWords(HyphensToSpaces(LastSegment(item.url)))

\* the record with url "https://x/a-b-c" and title "Unknown" became "A B C",
\* next to a record whose own title was kept
C16_Witness ==
  /\ Processed
  /\ \E i \in 1..Len(state.articles) :
       /\ state.articles[i].url = UrlABC
       /\ load.rawArticles[SourceOf(load.rawArticles, i)].title = UnknownTitle
       /\ state.articles[i].title = << "A", " ", "B", " ", "C" >>
  /\ \E i \in 1..Len(state.articles) :
       /\ Has(load.rawArticles[SourceOf(load.rawArticles, i)], "title")
       /\ state.articles[i].title = load.rawArticles[SourceOf(load.rawArticles, i)].title

ContainsIot(url) == Includes(LowerCase(url), << "i", "o", "t" >>)

\* C17 (as claimed): an accepted record with no explicit category whose url
\* contains "iot", in any letter case, gets the category "IoT Security".
C17_IotUrlGivesIotSecurity ==
  Processed =>
    \A i \in 1..Len(state.articles) :
      LET item == load.rawArticles[SourceOf(load.rawArticles, i)] IN
      ~Has(item, "category") /\ ContainsIot(item.url)
        => state.articles[i].category = IoTSecurity

\* C17 (amended): ... gets the category "IoT Security" unless the url also
\* contains "physical", "technical" or "human", which are tested first and
\* then give "Physical Security", "Technical Security" or "Human Security".
C17_IotUrlGivesIotSecurityUnlessEarlierRule ==
  Processed =>
    \A i \in 1..Len(state.articles) :
      LET item == load.rawArticles[SourceOf(load.rawArticles, i)]
          u == LowerCase(item.url)
      IN ~Has(item, "category") /\ ContainsIot(item.url)
           => state.articles[i].category =
                IF Includes(u, << "p", "h", "y", "s", "i", "c", "a", "l" >>) THEN PhysicalSecurity
                ELSE IF Includes(u, << "t", "e", "c", "h", "n", "i", "c", "a", "l" >>) THEN TechnicalSecurity
                ELSE IF Includes(u, << "h", "u", "m", "a", "n" >>) THEN HumanSecurity
                ELSE IoTSecurity

\* "https://x/IoT.html" without a category became an IoT Security article
C17_Witness ==
  /\ Processed
  /\ \E i \in 1..Len(state.articles) :
       /\ state.articles[i].url = UrlIoTHtml
       /\ ~Has(load.rawArticles[SourceOf(load.rawArticles, i)], "category")
       /\ state.articles[i].category = IoTSecurity

\* C18: in every state of the feed, whatever the order of the load completion,
\* the filter clicks and the load-more clicks, filteredArticles is the
\* order-preserving subsequence of articles of the records whose category equals
\* currentFilter, or articles itself when currentFilter is "all".
C18_FilteredIsRestriction ==
  state.filteredArticles =
    IF state.currentFilter = AllFilter THEN state.articles
    ELSE LET keep == {i \in 1..Len(state.articles) :
                        state.articles[i].category = state.currentFilter}
             G[k \in 0..Len(state.articles)] ==
               IF k = 0 THEN << >>
               ELSE IF k \in keep THEN Append(G[k - 1], state.articles[k]) ELSE G[k - 1]
         IN G[Len(state.articles)]

\* a category filter is on and keeps some but not all of the articles
C18_Witness ==
  /\ feedOp = "filter"
  /\ state.currentFilter # AllFilter
  /\ Len(state.filteredArticles) > 0
  /\ Len(state.filteredArticles) < Len(state.articles)

\* C19: every filterArticles call sets visibleCount to 9, and loadMoreArticles
\* is the only operation that raises visibleCount, by exactly 9.
C19_VisibleCountSteps ==
  [][ /\ feedOp' = "filter" => state'.visibleCount = PageSize
      /\ state'.visibleCount > state.visibleCount
           => feedOp' = "loadMore" /\ state'.visibleCount = state.visibleCount + PageSize
      /\ state'.visibleCount < state.visibleCount => feedOp' = "filter" ]_feedVars

\* load-more has run twice on a long list
C19_Witness ==
  /\ feedOp = "loadMore"
  /\ state.visibleCount = 3 * PageSize
  /\ Len(state.filteredArticles) > 2 * PageSize

\* C20: after every render the cards shown are the first
\* min(visibleCount, |filteredArticles|) entries of filteredArticles, and the
\* load-more control is shown exactly when |filteredArticles| > visibleCount.
C20_GridIsFirstPage ==
  feedOp # "init" =>
    /\ Len(grid.cards) = Min(state.visibleCount, Len(state.filteredArticles))
    /\ \A idx \in 1..Len(grid.cards) :
         /\ grid.cards[idx].originalIndex >= 0
         /\ state.articles[grid.cards[idx].originalIndex + 1] = state.filteredArticles[idx]
         /\ grid.cards[idx].title = state.filteredArticles[idx].title
    /\ grid.note <=> Len(state.filteredArticles) = 0
    /\ loadMoreDisplay = "flex" <=> Len(state.filteredArticles) > state.visibleCount
    /\ loadMoreDisplay \in {"flex", "none"}

\* the long list after two load-more clicks: every article is shown and the
\* load-more control is hidden
C20_Witness ==
  /\ feedOp = "loadMore"
  /\ Len(state.filteredArticles) = LongBatchLen
  /\ state.visibleCount = 3 * PageSize
  /\ Len(grid.cards) = LongBatchLen
  /\ loadMoreDisplay = "none"

\* ------------------------------------------------------- the chat store, II
\* C22: a click on a chat's pin button flips that chat's pinned flag and
\* nothing else in the store, and persists the store: activeChatId, the order
\* of the chats and every chat's id, title and messages are unchanged, the
\* message view is untouched, and a second click on the same chat's button
\* gives back the store and the persisted state as they were.
C22_PinFlipsOneFlag ==
  [][ lastOp'.op = "pin"
      => \E i \in 1..Len(chats) :
           /\ chats' = [chats EXCEPT ![i].pinned = ~chats[i].pinned]
           /\ activeChatId' = activeChatId
           /\ messagesEl' = messagesEl
           /\ localStorage' = [chats |-> Stringify(chats'), activeChatId |-> ToStr(activeChatId)]
           /\ LET P == [chats |-> chats', activeChatId |-> activeChatId',
                        localStorage |-> localStorage', messagesEl |-> messagesEl',
                        sidebar |-> sidebar']
                  back == pinToggle(P, chats[i].ref)
              IN /\ back.chats = chats
                 /\ back.activeChatId = activeChatId
                 /\ back.localStorage = localStorage ]_vars

\* a chat other than the active one has just been pinned
C22_Witness ==
  /\ lastOp.op = "pin"
  /\ Len(chats) >= 2
  /\ \E i \in 1..Len(chats) : chats[i].pinned /\ chats[i].id # activeChatId
  /\ \E i \in 1..Len(chats) : ~chats[i].pinned /\ chats[i].id = activeChatId

\* the positions of the chats with pinned = p, in stored order
PinnedAt(cs, p) == {i \in 1..Len(cs) : cs[i].pinned = p}

\* the position in cs of the n-th entry of the list: the pinned chats first,
\* each group in stored order
ListedAt(cs, n) ==
  LET np == Cardinality(PinnedAt(cs, TRUE)) IN
  IF n <= np
  THEN CHOOSE i \in PinnedAt(cs, TRUE) :
         Cardinality({h \in PinnedAt(cs, TRUE) : h <= i}) = n
  ELSE CHOOSE i \in PinnedAt(cs, FALSE) :
         Cardinality({h \in PinnedAt(cs, FALSE) : h <= i}) = n - np

\* the identities of the chats, in stored order
Refs(cs) == [i \in 1..Len(cs) |-> cs[i].ref]

\* C23: the rendered chat list is always all pinned chats in stored order
\* followed by all unpinned chats in stored order, and a step that only
\* renders (a selection, a pin click) leaves the stored order of chats as it was.
C23_PinnedFirstStoredOrder ==
  /\ [](/\ Len(sidebar) = Len(chats)
        /\ \A n \in 1..Len(sidebar) :
             /\ sidebar[n].ref = chats[ListedAt(chats, n)].ref
             /\ sidebar[n].title = chats[ListedAt(chats, n)].title
             /\ sidebar[n].pinned = chats[ListedAt(chats, n)].pinned)
  /\ [][lastOp'.op \in {"pin", "select"} => Refs(chats') = Refs(chats)]_vars

\* three chats, the oldest alone pinned: it is listed first, the other two
\* follow in stored order
C23_Witness ==
  /\ Len(chats) = 3
  /\ ~chats[1].pinned /\ ~chats[2].pinned /\ chats[3].pinned
  /\ Len(sidebar) = 3
  /\ sidebar[1].ref = chats[3].ref
  /\ sidebar[2].ref = chats[1].ref
  /\ sidebar[3].ref = chats[2].ref

\* the typing elements shown in the message view
TypingShown == {k \in 1..Len(messagesEl) : messagesEl[k].req # 0}

\* C24: a send that passes the empty-input test suspends with its typing
\* indicator shown; if its backend call resolves or rejects, it finishes with
\* its indicator removed; and when no send is in flight no indicator is shown,
\* also after several sends were in flight together. The same holds for the
\* widget's sendChatMessage.
C24_SendsFinishWithoutIndicator ==
  /\ [](/\ \A k \in TypingShown : requests[messagesEl[k].req].pc = "await"
        /\ InFlight(requests) = {} => TypingShown = {}
        /\ (\A r \in 1..LiveReq : widget.sends[r] = "idle")
             => \A k \in 1..Len(widget.els) : widget.els[k] # "typing")
  /\ [][lastOp' = [op |-> "sendMessage", tag |-> "sent"]
        => /\ Cardinality(InFlight(requests')) = Cardinality(InFlight(requests)) + 1
           /\ Last(messagesEl').text = TypingText
           /\ Last(messagesEl').req \in InFlight(requests') \ InFlight(requests)]_vars
  /\ \A r \in 1..LiveReq :
       /\ requests[r].pc = "await"
            ~> (requests[r].pc = "idle" /\ \A k \in TypingShown : messagesEl[k].req # r)
       /\ widget.sends[r] # "idle" ~> widget.sends[r] = "idle"

\* two sends of one chat were in flight together and both have finished
C24_Witness ==
  /\ InFlight(requests) = {}
  /\ TypingShown = {}
  /\ lastOp.op = "response"
  /\ \E i \in 1..Len(chats) :
       /\ Len(chats[i].messages) = 5
       /\ chats[i].messages[2].sender = "user"
       /\ chats[i].messages[3].sender = "user"

\* C26: a call that names a chat id the store does not hold does nothing:
\* deleteChat with an absent id, and sendMessage when activeChatId names no
\* chat, leave chats, activeChatId, both persisted items and the page as they
\* were, and no request is sent.
C26_AbsentIdIsNoOp ==
  [][ lastOp' \in {[op |-> "deleteChat", tag |-> "absent"],
                   [op |-> "sendMessage", tag |-> "nochat"]}
      => /\ chats' = chats
         /\ activeChatId' = activeChatId
         /\ localStorage' = localStorage
         /\ requests' = requests
         /\ messagesEl' = messagesEl
         /\ sidebar' = sidebar ]_vars

\* sendMessage has just run with text typed while activeChatId names no chat,
\* and two chats are stored
C26_Witness ==
  /\ lastOp = [op |-> "sendMessage", tag |-> "nochat"]
  /\ FindIndex(chats, activeChatId) = 0
  /\ Len(chats) = 2
  /\ InFlight(requests) = {}

\* what loadChat shows for the active chat
ActiveView ==
  LET i == FindIndex(chats, activeChatId) IN
  IF i = 0 THEN << >>
  ELSE [k \in 1..Len(chats[i].messages) |->
          [cls |-> "message " \o chats[i].messages[k].sender,
           text |-> DomText(chats[i].messages[k].text)]]

\* C27 (as claimed): whenever no request is in flight, the message view shows
\* exactly the stored messages of the active chat, in order.
C27_ViewIsActiveChat ==
  InFlight(requests) = {} =>
    /\ Len(messagesEl) = Len(ActiveView)
    /\ \A k \in 1..Len(messagesEl) :
         /\ messagesEl[k].cls = ActiveView[k].cls
         /\ messagesEl[k].text = ActiveView[k].text

\* C28: when the chat a request was sent from has been deleted before the
\* response arrives, the response task (reply or failure) leaves the chats
\* array as it is: the deleted chat does not come back and no remaining chat's
\* messages change; activeChatId is kept and the persisted `chats` item equals
\* the array.
C28_ResponseAfterDelete ==
  [][ lastOp'.op = "response"
      => \A r \in RespondingSlots :
           IndexOfRef(chats, requests[r].chat) = 0
             => /\ chats' = chats
                /\ activeChatId' = activeChatId
                /\ localStorage'.chats = Stringify(chats')
                /\ Parse(localStorage'.chats) = [i \in 1..Len(chats) |-> [chats[i] EXCEPT !.ref = i]] ]_vars

\* the only chat was deleted with its request in flight, and the reply has
\* arrived: the store holds the fresh chat alone, with its greeting alone
C28_Witness ==
  /\ lastOp = [op |-> "response", tag |-> "reply"]
  /\ Len(chats) = 1
  /\ chats[1].messages = << SeedMessage >>
  /\ Len(messagesEl) = 2
  /\ Len(localStorage.chats) = 1

Shown == [k \in 1..Len(viewer.suggested) |-> viewer.suggested[k]._idx]

SameCategory(i) ==
  state.articles[i + 1].category = state.articles[viewer.index + 1].category

\* C21: the related-article list never contains the opened article, has
\* min(3, number of articles - 1) entries, lists every chosen article of the
\* opened article's category before every chosen article of another category,
\* and keeps each of the two groups in the order of the articles array.
C21_RelatedArticles ==
  viewer.index >= 0 =>
    /\ viewer.index < Len(state.articles)
    /\ \A k \in 1..Len(Shown) : Shown[k] \in 0..(Len(state.articles) - 1)
    /\ \A k \in 1..Len(Shown) : Shown[k] # viewer.index
    /\ Len(Shown) = Min(3, Len(state.articles) - 1)
    /\ \A p, q \in 1..Len(Shown) :
         p < q => /\ SameCategory(Shown[p]) \/ ~SameCategory(Shown[q])
                  /\ SameCategory(Shown[p]) = SameCategory(Shown[q]) => Shown[p] < Shown[q]

\* the first article was opened; the third one shares its category and is listed
\* before the second and the fourth, which do not
C21_Witness ==
  /\ viewer.open
  /\ viewer.index = 0
  /\ Shown = << 2, 1, 3 >>
  /\ SameCategory(2) /\ ~SameCategory(1) /\ ~SameCategory(3)

\* what comes after the host of a url that parses, the whole url otherwise
UrlPath(url) ==
  IF UrlParses(url)
  THEN LET rest == SubSeq(url, Len(HttpsPrefix) + 1, Len(url))
           slashes == {i \in 1..Len(rest) : rest[i] = "/"}
       IN IF slashes = {} THEN << >>
          ELSE SubSeq(rest, CHOOSE i \in slashes : \A h \in slashes : i <= h, Len(rest))
  ELSE url

NoPathSegments(url) == \A h \in 1..Len(UrlPath(url)) : UrlPath(url)[h] = "/"

\* C25: when a record's title must be derived and its url has no path segments
\* (for example a url of scheme and host only), the derived title is the
\* literal "Cyber Security".
C25_NoPathIsCyberSecurity ==
  Processed =>
    \A i \in 1..Len(state.articles) :
      LET item == load.rawArticles[SourceOf(load.rawArticles, i)] IN
      (/\ ~(Has(item, "title") /\ item.title # UnknownTitle /\ item.title # item.url)
       /\ NoPathSegments(item.url))
        => state.articles[i].title = CyberSecurity

\* C29: every card of the grid shows the article that sits in the articles
\* array at the index the card passes to openArticle, no two cards pass the
\* same index, and a click on a card fills the reader from that article, under
\* any filter and any number of visible cards.
C29_CardOpensItsArticle ==
  /\ [](\A k \in 1..Len(grid.cards) :
          LET card == grid.cards[k] IN
          /\ card.originalIndex \in 0..(Len(state.articles) - 1)
          /\ state.filteredArticles[k] = state.articles[card.originalIndex + 1]
          /\ card.title = state.articles[card.originalIndex + 1].title
          /\ card.category = state.articles[card.originalIndex + 1].category
          /\ card.icon = state.articles[card.originalIndex + 1].icon
          /\ \A h \in 1..Len(grid.cards) :
               h # k => grid.cards[h].originalIndex # card.originalIndex)
  /\ [][feedOp' = "open" =>
         \E k \in 1..Len(grid.cards) :
           LET article == state.filteredArticles[k] IN
           /\ viewer'.open
           /\ viewer'.index = grid.cards[k].originalIndex
           /\ viewer'.title = article.title
           /\ viewer'.tag = article.category
           /\ viewer'.href = article.url
           /\ viewer'.source = ViewerSource(article.url)
           /\ viewer'.paragraphs = Paragraphs(SplitSentences(article.full_content))]_feedVars

\* under a category filter the second card of the grid was clicked: it is not
\* the second article, and another article of its category comes before it
C29_Witness ==
  /\ feedOp = "open"
  /\ viewer.open
  /\ state.currentFilter # AllFilter
  /\ Len(grid.cards) >= 2
  /\ grid.cards[2].originalIndex = viewer.index
  /\ viewer.index > 1
  /\ viewer.title = state.articles[viewer.index + 1].title
  /\ Len(viewer.paragraphs) = 2

====
